---- MODULE Spec2Model ----
(***************************************************************************)
(* Seat-availability monitor: the Subscription Store (database.py) and the *)
(* Monitoring Scheduler (monitoring.py).                                   *)
(*                                                                         *)
(* Time is counted in days: `today` is the calendar day, a timestamp is    *)
(* the day it was written, a departure date is a day.  ISO dates compare   *)
(* as text the way their days compare as numbers.                          *)
(*                                                                         *)
(* An action is one stretch of a coroutine between two awaits, so that the *)
(* interleavings of the model are those of the event loop.                 *)
(***************************************************************************)
EXTENDS Integers, Sequences, FiniteSets, TLC

\* ------------------------------------------------------------------ bounds
\* Rows ever inserted into subscriptions.
MaxSubs == 2
\* Rows ever inserted into check_history, into notifications, and messages
\* ever delivered by the Notifier.
MaxRows == 2
\* Last day of the clock.
MaxDay == 3
\* Active subscriptions in a database file that run() starts on.
MaxFanOut == 11

\* Telegram ids of the people who talk to the bot.
Users == {1, 2}
\* Departure dates a caller asks for: the clock starts at day 1, so one date is
\* already past and one is still to come.
Dates == {0, 2}
\* Concurrent callers of Database.create_subscription.
Callers == {"c1", "c2"}
\* Retention windows handed to cleanup_old_data.
RetentionDays == {1}
\* Intervals handed to update_check_interval.
Intervals == {10, 600}

\* NULL of a TIMESTAMP column.
NoTime == -1
\* The (user, route, date, train, class, berth) tuples callers create.
Tuples ==
    [user_id : Users, departure_station : {"Moskva"}, arrival_station : {"Kazan"},
     departure_date : Dates, train_number : {"001M"}, seat_type : {"kupe"},
     berth_position : {"nizhnyaya"}]

VARIABLES
    initialized,    \* Database._initialized
    users,          \* table users: the telegram_id of each row
    subscriptions,  \* table subscriptions: a set of rows
    sub_seq,        \* AUTOINCREMENT counter of subscriptions
    check_history,  \* table check_history: a set of rows
    hist_seq,       \* AUTOINCREMENT counter of check_history
    notifications,  \* table notifications: a set of rows
    notif_seq,      \* AUTOINCREMENT counter of notifications
    today,          \* the clock
    creating,       \* create_subscription calls in flight, per caller
    cleaning,       \* MonitoringService.cleanup_old_subscriptions in flight
    is_running,     \* MonitoringService.is_running
    check_interval, \* MonitoringService.check_interval
    requested,      \* the interval update_check_interval was last called with, if any
    pc,             \* where MonitoringService.run is
    tasks,          \* the cycle's _check_subscription tasks, by subscription id
    direct,         \* the _check_subscription call start_monitoring makes
    sent,           \* messages the Notifier delivered, in order
    message,        \* the _format_notification_message call under study
    bot,            \* MonitoringService.bot is set (a token was given)
    user_states,    \* RZDBot.user_states: the session of each user
    reply           \* what the front-end answered to the update it handled last

storeVars ==
    <<initialized, users, subscriptions, sub_seq, check_history, hist_seq,
      notifications, notif_seq, today, creating, cleaning>>

schedVars == <<is_running, check_interval, requested, direct, pc, tasks, sent>>

sessionVars == <<user_states, reply>>

vars == <<storeVars, schedVars, message, bot, sessionVars>>

\* --------------------------------------------------------------- the Store

\* A caller with no create_subscription call in flight.
IdleCall == [pc |-> "idle", args |-> <<>>]

\* No cleanup_old_subscriptions pass in flight.
IdlePass == [pc |-> "idle", todo |-> {}]

\* The row INSERT INTO subscriptions writes: is_active DEFAULT 1, last_checked NULL.
NewRow(id, a) ==
    [id |-> id, user_id |-> a.user_id, departure_station |-> a.departure_station,
     arrival_station |-> a.arrival_station, departure_date |-> a.departure_date,
     train_number |-> a.train_number, seat_type |-> a.seat_type,
     berth_position |-> a.berth_position, is_active |-> TRUE, last_checked |-> NoTime]

\* SELECT id FROM subscriptions WHERE <the seven fields match> AND is_active = 1
ExistingSubNone(rows, a) == {}

ExistingSub(rows, a) ==
    {s \in rows :
        /\ s.user_id = a.user_id
        /\ s.departure_station = a.departure_station
        /\ s.arrival_station = a.arrival_station
        /\ s.departure_date = a.departure_date
        /\ s.train_number = a.train_number
        /\ s.seat_type = a.seat_type
        /\ s.berth_position = a.berth_position
        /\ s.is_active}

\* fetchone(): SQLite scans the table in rowid order, so the first match is the
\* one with the least id.
FirstId(found) == CHOOSE i \in {s.id : s \in found} : \A s \in found : i <= s.id

\* INTEGER PRIMARY KEY without AUTOINCREMENT: one more than the largest id in
\* the table, so the id of a deleted last row is given out again.
next_rowid(rows, seq) ==
    IF rows = {} THEN 1
    ELSE 1 + (CHOOSE i \in {s.id : s \in rows} : \A s \in rows : s.id <= i)

\* id INTEGER PRIMARY KEY AUTOINCREMENT: one more than the largest id the table
\* ever held, which SQLite keeps in sqlite_sequence.
next_id(rows, seq) == seq + 1

\* Database.create_subscription run from its SELECT to its return with no other
\* Store call in between: the rows, the AUTOINCREMENT counter and the id returned.
create_subscription(rows, seq, a) ==
    IF ExistingSub(rows, a) # {}
    THEN [rows |-> rows, seq |-> seq, id |-> FirstId(ExistingSub(rows, a))]
    ELSE [rows |-> rows \cup {NewRow(next_id(rows, seq), a)}, seq |-> seq + 1,
          id |-> next_id(rows, seq)]

\* A fetch of every row, active or not.
get_all_subscriptions == subscriptions

\* A fetch that forgets the is_active = 1 condition.
get_subscriptions_of_users == {s \in subscriptions : s.user_id \in users}

\* SELECT s.*, u.telegram_id FROM subscriptions s JOIN users u
\*   ON s.user_id = u.telegram_id WHERE s.is_active = 1
get_active_subscriptions ==
    {s \in subscriptions : s.is_active /\ s.user_id \in users}

\* A join that takes the telegram_id of the first users row.
first_telegram_id(s) == CHOOSE u \in users : \A v \in users : u <= v

\* The u.telegram_id column of a row get_active_subscriptions returns: that of
\* the users row the subscription is joined with.
telegram_id(s) ==
    LET joined == {u \in users : u = s.user_id}
    IN IF joined = {} THEN 0 ELSE CHOOSE u \in joined : TRUE

\* UPDATE subscriptions SET is_active = 0 WHERE id = ?
deactivate_subscription(rows, id) ==
    {IF s.id = id THEN [s EXCEPT !.is_active = FALSE] ELSE s : s \in rows}

\* DELETE FROM subscriptions WHERE id = ?
delete_subscription(rows, id) == {s \in rows : s.id # id}

\* An update that also moves the subscription to the day of the check.
update_last_checked_and_date(rows, id, now) ==
    {IF s.id = id THEN [s EXCEPT !.last_checked = now, !.departure_date = now] ELSE s
        : s \in rows}

\* UPDATE subscriptions SET last_checked = CURRENT_TIMESTAMP WHERE id = ?
update_last_checked(rows, id, now) ==
    {IF s.id = id THEN [s EXCEPT !.last_checked = now] ELSE s : s \in rows}

\* A check record that always says no seats.
add_check_history_unavailable(h, seq, id, avail, info, now) ==
    h \cup {[id |-> seq + 1, subscription_id |-> id, seats_available |-> FALSE,
             seats_info |-> info, at |-> now]}

\* INSERT INTO check_history (subscription_id, seats_available, seats_info)
\* seats_info is the text of the result the check got: it tells a result with
\* an error key from one without.
add_check_history(h, seq, id, avail, info, now) ==
    h \cup {[id |-> seq + 1, subscription_id |-> id, seats_available |-> avail,
             seats_info |-> info, at |-> now]}

\* INSERT INTO notifications (subscription_id, message)
add_notification(n, seq, id, now) ==
    n \cup {[id |-> seq + 1, subscription_id |-> id, at |-> now]}

\* A retention that keeps a number of rows instead of a number of days.
OldRowsDroppedByCount(rows, days, now) ==
    {r \in rows : Cardinality({q \in rows : q.id < r.id}) >= days}

\* A retention that empties the table.
OldRowsDroppedAll(rows, days, now) == {}

\* DELETE FROM <table> WHERE <timestamp> < datetime('now', '-<days> days')
OldRowsDropped(rows, days, now) == {r \in rows : ~(r.at < now - days)}

\* UPDATE subscriptions SET is_active = 0 WHERE departure_date < date('now')
PastDeactivated(rows, now) ==
    {IF s.departure_date < now THEN [s EXCEPT !.is_active = FALSE] ELSE s : s \in rows}

\* Database.cleanup_old_data as one transaction: the three tables after it.
cleanup_old_data(h, n, rows, days, now) ==
    [check_history |-> OldRowsDropped(h, days, now),
     notifications |-> OldRowsDropped(n, days, now),
     subscriptions |-> PastDeactivated(rows, now)]

StoreInit ==
    /\ initialized = FALSE
    /\ users = {}
    /\ subscriptions = {}
    /\ sub_seq = 0
    /\ check_history = {}
    /\ hist_seq = 0
    /\ notifications = {}
    /\ notif_seq = 0
    /\ today = 1
    /\ creating = [c \in Callers |-> IdleCall]
    /\ cleaning = IdlePass

\* Database.initialize: the schema is created and committed, then the flag is set.
Initialize ==
    /\ ~initialized
    /\ initialized' = TRUE
    /\ UNCHANGED <<users, subscriptions, sub_seq, check_history, hist_seq,
                   notifications, notif_seq, today, creating, cleaning>>
    /\ UNCHANGED schedVars
    /\ UNCHANGED <<message, bot, sessionVars>>

\* Database.add_user
AddUser(u) ==
    /\ initialized
    /\ u \notin users
    /\ users' = users \cup {u}
    /\ UNCHANGED <<initialized, subscriptions, sub_seq, check_history, hist_seq,
                   notifications, notif_seq, today, creating, cleaning>>
    /\ UNCHANGED schedVars
    /\ UNCHANGED <<message, bot, sessionVars>>

\* The create_subscription calls in flight.
InFlight == {d \in Callers : creating[d].pc # "idle"}

\* Database.create_subscription up to fetchone(): the duplicate check.  A match
\* is returned at once; otherwise the call goes on to its INSERT.
CreateSelect(c, a) ==
    /\ initialized
    /\ creating[c].pc = "idle"
    /\ ExistingSub(subscriptions, a) = {}
    /\ sub_seq + Cardinality(InFlight) < MaxSubs
    /\ creating' = [creating EXCEPT ![c] = [pc |-> "insert", args |-> a]]
    /\ UNCHANGED <<initialized, users, subscriptions, sub_seq, check_history,
                   hist_seq, notifications, notif_seq, today, cleaning>>
    /\ UNCHANGED schedVars
    /\ UNCHANGED <<message, bot, sessionVars>>

\* Database.create_subscription from the INSERT on: the row is written with the
\* next AUTOINCREMENT id, and that id is returned.
CreateInsert(c) ==
    /\ creating[c].pc = "insert"
    /\ subscriptions' = subscriptions
                            \cup {NewRow(next_id(subscriptions, sub_seq), creating[c].args)}
    /\ sub_seq' = sub_seq + 1
    /\ creating' = [creating EXCEPT ![c] = IdleCall]
    /\ UNCHANGED <<initialized, users, check_history, hist_seq, notifications,
                   notif_seq, today, cleaning>>
    /\ UNCHANGED schedVars
    /\ UNCHANGED <<message, bot, sessionVars>>

\* Database.create_subscription called by the front-end, which handles one
\* update at a time: no other create_subscription runs between its SELECT and
\* its INSERT, and no Scheduler call writes a field its SELECT reads.
CreateSubscription(a) ==
    /\ initialized
    /\ InFlight = {}
    /\ ExistingSub(subscriptions, a) # {} \/ sub_seq < MaxSubs
    /\ LET r == create_subscription(subscriptions, sub_seq, a)
       IN /\ subscriptions' = r.rows
          /\ sub_seq' = r.seq
    /\ UNCHANGED <<initialized, users, check_history, hist_seq, notifications,
                   notif_seq, today, creating, cleaning>>
    /\ UNCHANGED schedVars
    /\ UNCHANGED <<message, bot, sessionVars>>

\* Database.deactivate_subscription
Deactivate(id) ==
    /\ initialized
    /\ subscriptions' = deactivate_subscription(subscriptions, id)
    /\ UNCHANGED <<initialized, users, sub_seq, check_history, hist_seq,
                   notifications, notif_seq, today, creating, cleaning>>
    /\ UNCHANGED schedVars
    /\ UNCHANGED <<message, bot, sessionVars>>

\* Database.delete_subscription
Delete(id) ==
    /\ initialized
    /\ subscriptions' = delete_subscription(subscriptions, id)
    /\ UNCHANGED <<initialized, users, sub_seq, check_history, hist_seq,
                   notifications, notif_seq, today, creating, cleaning>>
    /\ UNCHANGED schedVars
    /\ UNCHANGED <<message, bot, sessionVars>>

\* Database.add_check_history called on its own.
AddCheckHistory(id, avail) ==
    /\ initialized
    /\ hist_seq < MaxRows
    /\ check_history' = add_check_history(check_history, hist_seq, id, avail,
                                          IF avail THEN "avail" ELSE "unavail", today)
    /\ hist_seq' = hist_seq + 1
    /\ UNCHANGED <<initialized, users, subscriptions, sub_seq, notifications,
                   notif_seq, today, creating, cleaning>>
    /\ UNCHANGED schedVars
    /\ UNCHANGED <<message, bot, sessionVars>>

\* Database.add_notification called on its own.
AddNotification(id) ==
    /\ initialized
    /\ notif_seq < MaxRows
    /\ notifications' = add_notification(notifications, notif_seq, id, today)
    /\ notif_seq' = notif_seq + 1
    /\ UNCHANGED <<initialized, users, subscriptions, sub_seq, check_history,
                   hist_seq, today, creating, cleaning>>
    /\ UNCHANGED schedVars
    /\ UNCHANGED <<message, bot, sessionVars>>

\* Database.cleanup_old_data: one transaction.
CleanupOldData(days) ==
    /\ initialized
    /\ LET r == cleanup_old_data(check_history, notifications, subscriptions, days, today)
       IN /\ check_history' = r.check_history
          /\ notifications' = r.notifications
          /\ subscriptions' = r.subscriptions
    /\ UNCHANGED <<initialized, users, sub_seq, hist_seq, notif_seq, today, creating,
                   cleaning>>
    /\ UNCHANGED schedVars
    /\ UNCHANGED <<message, bot, sessionVars>>

\* MonitoringService.cleanup_old_subscriptions: the active subscriptions are
\* fetched, then the loop goes through them.
CleanupSubsStart ==
    /\ initialized
    /\ cleaning.pc = "idle"
    /\ cleaning' = [pc |-> "loop", todo |-> get_active_subscriptions]
    /\ UNCHANGED <<initialized, users, subscriptions, sub_seq, check_history,
                   hist_seq, notifications, notif_seq, today, creating>>
    /\ UNCHANGED schedVars
    /\ UNCHANGED <<message, bot, sessionVars>>

\* One turn of its loop: a subscription whose date is before today is
\* deactivated, the others are passed over.
CleanupSubsStep ==
    /\ cleaning.pc = "loop"
    /\ \E s \in cleaning.todo :
          /\ subscriptions' = IF s.departure_date < today
                              THEN deactivate_subscription(subscriptions, s.id)
                              ELSE subscriptions
          /\ cleaning' = [cleaning EXCEPT !.todo = cleaning.todo \ {s}]
    /\ UNCHANGED <<initialized, users, sub_seq, check_history, hist_seq,
                   notifications, notif_seq, today, creating>>
    /\ UNCHANGED schedVars
    /\ UNCHANGED <<message, bot, sessionVars>>

\* The loop is over: the pass returns.
CleanupSubsDone ==
    /\ cleaning.pc = "loop"
    /\ cleaning.todo = {}
    /\ cleaning' = IdlePass
    /\ UNCHANGED <<initialized, users, subscriptions, sub_seq, check_history,
                   hist_seq, notifications, notif_seq, today, creating>>
    /\ UNCHANGED schedVars
    /\ UNCHANGED <<message, bot, sessionVars>>

\* A day passes.
Tick ==
    /\ today < MaxDay
    /\ today' = today + 1
    /\ UNCHANGED <<initialized, users, subscriptions, sub_seq, check_history,
                   hist_seq, notifications, notif_seq, creating, cleaning>>
    /\ UNCHANGED schedVars
    /\ UNCHANGED <<message, bot, sessionVars>>

\* ----------------------------------------------------------- the Scheduler

\* Verdicts of the Availability Source.
Verdicts == {"avail", "unavail"}

\* A _check_subscription task before its first await.  probes counts its calls
\* of the Availability Source, hist the check_history rows it wrote; fate tells
\* how it went wrong, if it did.
NewTask ==
    [pc |-> "start", verdict |-> "none", chat |-> 0, probes |-> 0, hist |-> 0,
     fate |-> "none"]

Ids(rows) == {s.id : s \in rows}

\* No start_monitoring call in progress.
NoCheck ==
    [id |-> 0, pc |-> "idle", verdict |-> "none", chat |-> 0, probes |-> 0,
     hist |-> 0, fate |-> "none"]

\* A _check_subscription task that has returned: its locals are gone.
Returned(task) == [task EXCEPT !.pc = "done", !.verdict = "none", !.chat = 0]

SchedInit ==
    /\ is_running = FALSE
    /\ check_interval = 300
    /\ requested = <<>>
    /\ pc = "idle"
    /\ tasks = <<>>
    /\ direct = NoCheck
    /\ sent = <<>>

\* MonitoringService.update_check_interval: the interval it sets.
ClampedNone(interval) == interval

Clamped(interval) == IF interval < 60 THEN 60 ELSE interval

\* MonitoringService.update_check_interval
UpdateCheckInterval(n) ==
    /\ check_interval' = Clamped(n)
    /\ requested' = <<n>>
    /\ UNCHANGED <<is_running, direct, pc, tasks, sent>>
    /\ UNCHANGED storeVars
    /\ UNCHANGED <<message, bot, sessionVars>>

\* MonitoringService.stop
Stop ==
    /\ is_running' = FALSE
    /\ UNCHANGED <<check_interval, requested, direct, pc, tasks, sent>>
    /\ UNCHANGED storeVars
    /\ UNCHANGED <<message, bot, sessionVars>>

\* MonitoringService.run up to its first await: the flag is set.
RunStart ==
    /\ pc = "idle"
    /\ is_running' = TRUE
    /\ pc' = "init_test"
    /\ UNCHANGED <<check_interval, requested, direct, tasks, sent>>
    /\ UNCHANGED storeVars
    /\ UNCHANGED <<message, bot, sessionVars>>

\* A run() that goes on whether the Store is ready or not.
AfterInitTestNoWait(ready) == "settle"

\* Where run() goes from the test of its wait loop.
AfterInitTest(ready) == IF ready THEN "settle" ELSE "init_sleep"

\* while not self.db._initialized:
InitTest ==
    /\ pc = "init_test"
    /\ pc' = AfterInitTest(initialized)
    /\ UNCHANGED <<is_running, check_interval, requested, direct, tasks, sent>>
    /\ UNCHANGED storeVars
    /\ UNCHANGED <<message, bot, sessionVars>>

\*     await asyncio.sleep(1)
InitSleep ==
    /\ pc = "init_sleep"
    /\ pc' = "init_test"
    /\ UNCHANGED <<is_running, check_interval, requested, direct, tasks, sent>>
    /\ UNCHANGED storeVars
    /\ UNCHANGED <<message, bot, sessionVars>>

\* await asyncio.sleep(5)
Settle ==
    /\ pc = "settle"
    /\ pc' = "loop_test"
    /\ UNCHANGED <<is_running, check_interval, requested, direct, tasks, sent>>
    /\ UNCHANGED storeVars
    /\ UNCHANGED <<message, bot, sessionVars>>

\* while self.is_running: the loop ends once the flag is down.
RunReturn ==
    /\ pc = "loop_test"
    /\ ~is_running
    /\ pc' = "returned"
    /\ UNCHANGED <<is_running, check_interval, requested, direct, tasks, sent>>
    /\ UNCHANGED storeVars
    /\ UNCHANGED <<message, bot, sessionVars>>

\* _check_all_subscriptions: the list is fetched and one task per row is created.
CycleStart ==
    /\ pc = "loop_test"
    /\ is_running
    /\ tasks' = [id \in Ids(get_active_subscriptions) |-> NewTask]
    /\ pc' = "gather"
    /\ UNCHANGED <<is_running, check_interval, requested, direct, sent>>
    /\ UNCHANGED storeVars
    /\ UNCHANGED <<message, bot, sessionVars>>

\* A failed fetch that ends run().
OnFetchFailureFatal == "returned"

\* get_active_subscriptions meets a Store error: it logs it and returns [], and
\* _check_all_subscriptions gathers nothing.
OnFetchFailure == "gather_failed"

\* _check_all_subscriptions when the fetch of the list fails.
CycleFetchFails ==
    /\ pc = "loop_test"
    /\ is_running
    /\ tasks' = <<>>
    /\ pc' = OnFetchFailure
    /\ UNCHANGED <<is_running, check_interval, requested, direct, sent>>
    /\ UNCHANGED storeVars
    /\ UNCHANGED <<message, bot, sessionVars>>

\* _check_subscription: the task reads the active subscriptions again and looks
\* its own up; a subscription that is gone is skipped.
TaskFetch(t) ==
    /\ t \in DOMAIN tasks
    /\ tasks[t].pc = "start"
    /\ LET found == {s \in get_active_subscriptions : s.id = t}
       IN IF found = {}
          THEN tasks' = [tasks EXCEPT ![t] = Returned([tasks[t] EXCEPT !.fate = "skipped"])]
          ELSE \E s \in found :
                  tasks' = [tasks EXCEPT ![t].pc = "probe", ![t].chat = telegram_id(s)]
    /\ UNCHANGED <<is_running, check_interval, requested, direct, pc, sent>>
    /\ UNCHANGED storeVars
    /\ UNCHANGED <<message, bot, sessionVars>>

\* An exception that ends the whole batch instead of the one check.
OnCheckExceptionAbort(t) ==
    [id \in DOMAIN tasks |->
        IF id = t THEN Returned([tasks[id] EXCEPT !.fate = "raised"])
        ELSE Returned(tasks[id])]

\* except Exception in _check_subscription: the error is logged and the task
\* ends; the other tasks of the batch go on.
OnCheckException(t) == [tasks EXCEPT ![t] = Returned([tasks[t] EXCEPT !.fate = "raised"])]

\* await self.parser.check_seat_availability(...) returns a verdict.
TaskProbe(t) ==
    /\ t \in DOMAIN tasks
    /\ tasks[t].pc = "probe"
    /\ \E v \in Verdicts :
          tasks' = [tasks EXCEPT ![t].pc = "update", ![t].verdict = v,
                                 ![t].probes = tasks[t].probes + 1]
    /\ UNCHANGED <<is_running, check_interval, requested, direct, pc, sent>>
    /\ UNCHANGED storeVars
    /\ UNCHANGED <<message, bot, sessionVars>>

\* await self.parser.check_seat_availability(...) got no data (unknown station,
\* HTTP error, exception while fetching or parsing): it returns
\* {'available': False, 'error': ...}.
TaskProbeNoData(t) ==
    /\ t \in DOMAIN tasks
    /\ tasks[t].pc = "probe"
    /\ tasks' = [tasks EXCEPT ![t].pc = "update", ![t].verdict = "error",
                              ![t].probes = tasks[t].probes + 1]
    /\ UNCHANGED <<is_running, check_interval, requested, direct, pc, sent>>
    /\ UNCHANGED storeVars
    /\ UNCHANGED <<message, bot, sessionVars>>

\* await self.parser.check_seat_availability(...) raises.
TaskProbeRaises(t) ==
    /\ t \in DOMAIN tasks
    /\ tasks[t].pc = "probe"
    /\ tasks' = [id \in DOMAIN tasks |->
                    IF id = t
                    THEN [OnCheckException(t)[id] EXCEPT !.probes = tasks[t].probes + 1]
                    ELSE OnCheckException(t)[id]]
    /\ UNCHANGED <<is_running, check_interval, requested, direct, pc, sent>>
    /\ UNCHANGED storeVars
    /\ UNCHANGED <<message, bot, sessionVars>>

\* await self.db.update_last_checked(subscription_id)
TaskUpdate(t) ==
    /\ t \in DOMAIN tasks
    /\ tasks[t].pc = "update"
    /\ subscriptions' = update_last_checked(subscriptions, t, today)
    /\ tasks' = [tasks EXCEPT ![t].pc = "history"]
    /\ UNCHANGED <<initialized, users, sub_seq, check_history, hist_seq,
                   notifications, notif_seq, today, creating, cleaning>>
    /\ UNCHANGED <<is_running, check_interval, requested, direct, pc, sent>>
    /\ UNCHANGED <<message, bot, sessionVars>>

\* A Store error that reaches the except block of _check_subscription.
AfterStoreErrorRaised(task) == Returned([task EXCEPT !.fate = "raised"])

\* except Exception in update_last_checked: the error is logged, False is
\* returned and the check goes on to its next statement.
AfterStoreError(task) == [task EXCEPT !.pc = "history", !.fate = "updfail"]

\* update_last_checked meets a Store error: it logs it and returns False.
TaskUpdateFails(t) ==
    /\ t \in DOMAIN tasks
    /\ tasks[t].pc = "update"
    /\ tasks' = [tasks EXCEPT ![t] = AfterStoreError(tasks[t])]
    /\ UNCHANGED <<is_running, check_interval, requested, direct, pc, sent>>
    /\ UNCHANGED storeVars
    /\ UNCHANGED <<message, bot, sessionVars>>

\* A check that notifies whatever the verdict says.
NotifiesAlways(v) == TRUE

\* Whether a verdict leads to _send_notification.
Notifies(v) == v = "avail"

\* After add_check_history: the notification, if the verdict asks for one.
AfterHistory(task) ==
    IF Notifies(task.verdict) THEN [task EXCEPT !.pc = "send"] ELSE Returned(task)

\* await self.db.add_check_history(...)
TaskHistory(t) ==
    /\ t \in DOMAIN tasks
    /\ tasks[t].pc = "history"
    /\ hist_seq < MaxRows
    /\ check_history' = add_check_history(check_history, hist_seq, t,
                                          tasks[t].verdict = "avail",
                                          tasks[t].verdict, today)
    /\ hist_seq' = hist_seq + 1
    /\ tasks' = [tasks EXCEPT ![t] = AfterHistory([tasks[t] EXCEPT !.hist = @ + 1])]
    /\ UNCHANGED <<initialized, users, subscriptions, sub_seq, notifications,
                   notif_seq, today, creating, cleaning>>
    /\ UNCHANGED <<is_running, check_interval, requested, direct, pc, sent>>
    /\ UNCHANGED <<message, bot, sessionVars>>

\* add_check_history meets a Store error: it logs it and returns False.
TaskHistoryFails(t) ==
    /\ t \in DOMAIN tasks
    /\ tasks[t].pc = "history"
    /\ tasks' = [tasks EXCEPT ![t] = AfterHistory([tasks[t] EXCEPT !.fate = "histfail"])]
    /\ UNCHANGED <<is_running, check_interval, requested, direct, pc, sent>>
    /\ UNCHANGED storeVars
    /\ UNCHANGED <<message, bot, sessionVars>>

\* await self.bot.send_message(chat_id=subscription['telegram_id'], ...)
TaskSend(t) ==
    /\ t \in DOMAIN tasks
    /\ tasks[t].pc = "send"
    /\ bot
    /\ Len(sent) < MaxRows
    /\ sent' = Append(sent, [chat_id |-> tasks[t].chat, subscription_id |-> t])
    /\ tasks' = [tasks EXCEPT ![t].pc = "record"]
    /\ UNCHANGED <<is_running, check_interval, requested, direct, pc>>
    /\ UNCHANGED storeVars
    /\ UNCHANGED <<message, bot, sessionVars>>

\* A delivery error that reaches the except block of _check_subscription.
OnNotifyExceptionRaised(t) == OnCheckException(t)

\* except TelegramError / except Exception in _send_notification: the error is
\* logged, _send_notification returns and so does the check.
OnNotifyException(t) == [tasks EXCEPT ![t] = Returned(tasks[t])]

\* if not self.bot: ... return, with a row written all the same.
NoBotRecords(t) == [tasks EXCEPT ![t].pc = "record"]

\* if not self.bot: logger.warning(...); return.  The check returns too.
NoBotReturns(t) == [tasks EXCEPT ![t] = Returned(tasks[t])]

\* _send_notification finds no bot: nothing is sent, nothing is written.
TaskNoBot(t) ==
    /\ t \in DOMAIN tasks
    /\ tasks[t].pc = "send"
    /\ ~bot
    /\ tasks' = NoBotReturns(t)
    /\ UNCHANGED <<is_running, check_interval, requested, direct, pc, sent>>
    /\ UNCHANGED storeVars
    /\ UNCHANGED <<message, bot, sessionVars>>

\* send_message raises TelegramError: _send_notification logs it and returns.
TaskSendFails(t) ==
    /\ t \in DOMAIN tasks
    /\ tasks[t].pc = "send"
    /\ bot
    /\ tasks' = OnNotifyException(t)
    /\ UNCHANGED <<is_running, check_interval, requested, direct, pc, sent>>
    /\ UNCHANGED storeVars
    /\ UNCHANGED <<message, bot, sessionVars>>

\* await self.db.add_notification(subscription['id'], message)
TaskRecord(t) ==
    /\ t \in DOMAIN tasks
    /\ tasks[t].pc = "record"
    /\ notif_seq < MaxRows
    /\ notifications' = add_notification(notifications, notif_seq, t, today)
    /\ notif_seq' = notif_seq + 1
    /\ tasks' = [tasks EXCEPT ![t] = Returned(tasks[t])]
    /\ UNCHANGED <<initialized, users, subscriptions, sub_seq, check_history,
                   hist_seq, today, creating, cleaning>>
    /\ UNCHANGED <<is_running, check_interval, requested, direct, pc, sent>>
    /\ UNCHANGED <<message, bot, sessionVars>>

\* add_notification meets a Store error: it logs it and returns False.
TaskRecordFails(t) ==
    /\ t \in DOMAIN tasks
    /\ tasks[t].pc = "record"
    /\ tasks' = [tasks EXCEPT ![t] = Returned([tasks[t] EXCEPT !.fate = "recfail"])]
    /\ UNCHANGED <<is_running, check_interval, requested, direct, pc, sent>>
    /\ UNCHANGED storeVars
    /\ UNCHANGED <<message, bot, sessionVars>>

\* A gather that returns as soon as the tasks are created.
GatheredAtOnce(batch) == TRUE

\* await asyncio.gather(*tasks, return_exceptions=True) is over: every task of
\* the batch has returned or raised.
Gathered(batch) == \A t \in DOMAIN batch : batch[t].pc = "done"

\* asyncio.gather returns once every task is over; the loop goes to sleep.
GatherDone ==
    /\ pc \in {"gather", "gather_failed"}
    /\ Gathered(tasks)
    /\ pc' = IF pc = "gather" THEN "sleep" ELSE "sleep_failed"
    /\ UNCHANGED <<is_running, check_interval, requested, direct, tasks, sent>>
    /\ UNCHANGED storeVars
    /\ UNCHANGED <<message, bot, sessionVars>>

\* await asyncio.sleep(self.check_interval) is over.
SleepDone ==
    /\ pc \in {"sleep", "sleep_failed"}
    /\ pc' = "loop_test"
    /\ tasks' = <<>>
    /\ UNCHANGED <<is_running, check_interval, requested, direct, sent>>
    /\ UNCHANGED storeVars
    /\ UNCHANGED <<message, bot, sessionVars>>

\* RZDBot._create_subscription: the front-end creates the subscription, then
\* start_monitoring calls _check_subscription for the identifier it got, which
\* runs up to its first await.  The front-end handles one update at a time.
CreateAndCheck(a) ==
    /\ initialized
    /\ InFlight = {}
    /\ direct.pc \in {"idle", "done"}
    /\ ExistingSub(subscriptions, a) # {} \/ sub_seq < MaxSubs
    /\ LET r == create_subscription(subscriptions, sub_seq, a)
       IN /\ subscriptions' = r.rows
          /\ sub_seq' = r.seq
          /\ direct' = [NoCheck EXCEPT !.id = r.id, !.pc = "start"]
    /\ UNCHANGED <<initialized, users, check_history, hist_seq, notifications,
                   notif_seq, today, creating, cleaning>>
    /\ UNCHANGED <<is_running, check_interval, requested, pc, tasks, sent>>
    /\ UNCHANGED <<message, bot, sessionVars>>

\* _check_subscription called by start_monitoring: the active subscriptions
\* are read and the subscription is looked up.
DirectFetch ==
    /\ direct.pc = "start"
    /\ LET found == {s \in get_active_subscriptions : s.id = direct.id}
       IN IF found = {}
          THEN direct' = Returned([direct EXCEPT !.fate = "skipped"])
          ELSE \E s \in found :
                  direct' = [direct EXCEPT !.pc = "probe", !.chat = telegram_id(s)]
    /\ UNCHANGED <<is_running, check_interval, requested, pc, tasks, sent>>
    /\ UNCHANGED storeVars
    /\ UNCHANGED <<message, bot, sessionVars>>

\* ... check_seat_availability returns a verdict.
DirectProbe ==
    /\ direct.pc = "probe"
    /\ \E v \in Verdicts :
          direct' = [direct EXCEPT !.pc = "update", !.verdict = v,
                                   !.probes = direct.probes + 1]
    /\ UNCHANGED <<is_running, check_interval, requested, pc, tasks, sent>>
    /\ UNCHANGED storeVars
    /\ UNCHANGED <<message, bot, sessionVars>>

\* ... update_last_checked
DirectUpdate ==
    /\ direct.pc = "update"
    /\ subscriptions' = update_last_checked(subscriptions, direct.id, today)
    /\ direct' = [direct EXCEPT !.pc = "history"]
    /\ UNCHANGED <<initialized, users, sub_seq, check_history, hist_seq,
                   notifications, notif_seq, today, creating, cleaning>>
    /\ UNCHANGED <<is_running, check_interval, requested, pc, tasks, sent>>
    /\ UNCHANGED <<message, bot, sessionVars>>

\* ... add_check_history
DirectHistory ==
    /\ direct.pc = "history"
    /\ hist_seq < MaxRows
    /\ check_history' = add_check_history(check_history, hist_seq, direct.id,
                                          direct.verdict = "avail",
                                          direct.verdict, today)
    /\ hist_seq' = hist_seq + 1
    /\ direct' = AfterHistory([direct EXCEPT !.hist = @ + 1])
    /\ UNCHANGED <<initialized, users, subscriptions, sub_seq, notifications,
                   notif_seq, today, creating, cleaning>>
    /\ UNCHANGED <<is_running, check_interval, requested, pc, tasks, sent>>
    /\ UNCHANGED <<message, bot, sessionVars>>

\* ... send_message
DirectSend ==
    /\ direct.pc = "send"
    /\ bot
    /\ Len(sent) < MaxRows
    /\ sent' = Append(sent, [chat_id |-> direct.chat, subscription_id |-> direct.id])
    /\ direct' = [direct EXCEPT !.pc = "record"]
    /\ UNCHANGED <<is_running, check_interval, requested, pc, tasks>>
    /\ UNCHANGED storeVars
    /\ UNCHANGED <<message, bot, sessionVars>>

\* ... add_notification, and start_monitoring returns.
DirectRecord ==
    /\ direct.pc = "record"
    /\ notif_seq < MaxRows
    /\ notifications' = add_notification(notifications, notif_seq, direct.id, today)
    /\ notif_seq' = notif_seq + 1
    /\ direct' = Returned(direct)
    /\ UNCHANGED <<initialized, users, subscriptions, sub_seq, check_history,
                   hist_seq, today, creating, cleaning>>
    /\ UNCHANGED <<is_running, check_interval, requested, pc, tasks, sent>>
    /\ UNCHANGED <<message, bot, sessionVars>>

\* A step of the check start_monitoring makes.
DirectStep ==
    \/ DirectFetch
    \/ DirectProbe
    \/ DirectUpdate
    \/ DirectHistory
    \/ DirectSend
    \/ DirectRecord

\* MonitoringService.retry_delay
retry_delay == 60

\* The length of the sleep run() is in, 0 when it is not in one.  The sleep
\* after a cycle is the one of the try block, whether or not the fetch of the
\* cycle failed; nothing is raised into the except block of run().
Wait ==
    IF pc \in {"sleep", "sleep_failed"} THEN check_interval
    ELSE IF pc = "retry_sleep" THEN retry_delay
    ELSE IF pc = "init_sleep" THEN 1
    ELSE IF pc = "settle" THEN 5
    ELSE 0

\* ------------------------------------------------------------ the shutdown

\* run() has a cancellation pending, by the place it waits at: outside any try
\* block, inside the try block of its loop, or in the gather of a cycle.
CancelPcs == {"cancel_plain", "cancel_try", "cancel_gather"}

\* Where monitoring_task.cancel() finds run().
CancelAt(at) ==
    IF at \in {"idle", "init_test", "init_sleep", "settle"} THEN "cancel_plain"
    ELSE IF at \in {"gather", "gather_failed"} THEN "cancel_gather"
    ELSE "cancel_try"

\* A run() that swallows CancelledError and goes back to the same wait.
CancelOutcomesWaitAgain(at) == {at}

\* What CancelledError does to run() when it is thrown at its await.  Outside a
\* try block it ends run().  Inside one it ends run() where CancelledError is a
\* BaseException; where it is an Exception, except Exception in run() catches
\* it and sleeps retry_delay, and except Exception in _check_all_subscriptions
\* catches it and run() goes on to its sleep.
CancelOutcomes(at) ==
    IF at = "cancel_plain" THEN {"cancelled"}
    ELSE IF at = "cancel_try" THEN {"cancelled", "retry_sleep"}
    ELSE {"cancelled", "sleep"}

\* finally of RZDBot.run: stop() has no await in it, so is_running goes down
\* and monitoring_task.cancel() is called in one stretch; cancelling the task
\* that waits in gather cancels the checks that are not over.  It runs once: the
\* task is not started yet, or run() has set is_running and nothing but this
\* has taken it down.
Shutdown ==
    /\ pc = "idle" \/ is_running
    /\ pc \notin CancelPcs \cup {"returned", "cancelled"}
    /\ is_running' = FALSE
    /\ pc' = CancelAt(pc)
    /\ tasks' = [t \in DOMAIN tasks |->
                    IF pc \in {"gather", "gather_failed"} /\ tasks[t].pc # "done"
                    THEN [tasks[t] EXCEPT !.fate = "cancel"] ELSE tasks[t]]
    /\ UNCHANGED <<check_interval, requested, direct, sent>>
    /\ UNCHANGED storeVars
    /\ UNCHANGED <<message, bot, sessionVars>>

\* The check has no cancellation pending.
NotCancelled(t) == t \in DOMAIN tasks /\ tasks[t].fate # "cancel"

\* CancelledError is thrown at the await of a check and ends it, through
\* except Exception of _check_subscription or past it.
TaskCancelled(t) ==
    /\ t \in DOMAIN tasks
    /\ tasks[t].fate = "cancel"
    /\ tasks' = [tasks EXCEPT ![t] = Returned([tasks[t] EXCEPT !.fate = "cancelled"])]
    /\ UNCHANGED <<is_running, check_interval, requested, direct, pc, sent>>
    /\ UNCHANGED storeVars
    /\ UNCHANGED <<message, bot, sessionVars>>

\* CancelledError is thrown inside a Store call or _send_notification where it
\* is an Exception: their except Exception catches it, the call is lost and the
\* check goes on with its next statement.
TaskCancelSwallowed(t) ==
    /\ t \in DOMAIN tasks
    /\ tasks[t].fate = "cancel"
    /\ tasks[t].pc \in {"update", "history", "send", "record"}
    /\ tasks' = [tasks EXCEPT ![t] =
                    IF tasks[t].pc = "update"
                    THEN [tasks[t] EXCEPT !.pc = "history", !.fate = "swallowed"]
                    ELSE IF tasks[t].pc = "history"
                    THEN AfterHistory([tasks[t] EXCEPT !.fate = "swallowed"])
                    ELSE Returned([tasks[t] EXCEPT !.fate = "swallowed"])]
    /\ UNCHANGED <<is_running, check_interval, requested, direct, pc, sent>>
    /\ UNCHANGED storeVars
    /\ UNCHANGED <<message, bot, sessionVars>>

\* CancelledError reaches run(): in a cycle, once the cancelled checks are over.
CancelDelivered ==
    /\ pc \in CancelPcs
    /\ pc = "cancel_gather" => \A t \in DOMAIN tasks : tasks[t].pc = "done"
    /\ pc' \in CancelOutcomes(pc)
    /\ UNCHANGED <<is_running, check_interval, requested, direct, tasks, sent>>
    /\ UNCHANGED storeVars
    /\ UNCHANGED <<message, bot, sessionVars>>

\* await asyncio.sleep(self.retry_delay) is over.
RetrySleepDone ==
    /\ pc = "retry_sleep"
    /\ pc' = "loop_test"
    /\ tasks' = <<>>
    /\ UNCHANGED <<is_running, check_interval, requested, direct, sent>>
    /\ UNCHANGED storeVars
    /\ UNCHANGED <<message, bot, sessionVars>>

\* ------------------------------------------------- the notification text

\* No _format_notification_message call is looked at.
NoMessage == [text |-> <<>>]

\* Python's None.
PyNone == "<None>"

\* RZDBot.__init__ builds the MonitoringService with the token main() got.
Configured == bot = TRUE

\* 'data': {} : a draft with nothing in it.
EmptyDraft ==
    [departure_station |-> PyNone, arrival_station |-> PyNone,
     departure_date |-> PyNone, selected_train |-> PyNone, seat_type |-> PyNone]

\* user_states has no entry for the user: user_states.get(user_id, {}) is {}.
NoSession == [state |-> PyNone, data |-> EmptyDraft]

\* {'state': 'idle', 'data': {}}
IdleSession == [state |-> "idle", data |-> EmptyDraft]

\* No update was handled yet.
NoReply == [user |-> 0, text |-> PyNone, raised |-> PyNone, buttons |-> {}]

\* reply_text / edit_message_text with this text.
Answer(u, text) == [user |-> u, text |-> text, raised |-> PyNone, buttons |-> {}]

\* The handler raised before it answered: the Application logs the error.
Unanswered(u, exc) == [user |-> u, text |-> PyNone, raised |-> exc, buttons |-> {}]

\* RZDBot.__init__: self.user_states = {}
SessionInit ==
    /\ user_states = [u \in Users |-> NoSession]
    /\ reply = NoReply

\* The optional keys of an availability result and the line each one gets.
DetailLabel == [price |-> "Tsena", car_number |-> "Vagon", seat_number |-> "Mesto"]

\* The value the Availability Source gives for a key when it has one.
DetailValue == [price |-> "3200", car_number |-> "5", seat_number |-> "12"]

\* availability_info.get(key): None when the key is missing.
Get(info, key) == IF key \in DOMAIN info THEN info[key] ELSE PyNone

\* Truth value of a str or None: None and '' are false.
Truthy(v) == v \notin {PyNone, ""}

\* One "<b>label:</b> value" line of the text.
Line(label, parts) == [label |-> label, parts |-> parts]

\* if availability_info.get(key): message += the line of that key
DetailLine(info, key) ==
    IF Truthy(Get(info, key)) THEN <<Line(DetailLabel[key], <<info[key]>>)>> ELSE <<>>

\* A text that names the berth whatever the preference is.
format_with_berth(subscription, availability_info, now) ==
    << Line("Naydeny svobodnye mesta!", <<>>),
       Line("Poezd", <<subscription.train_number>>),
       Line("Marshrut", <<subscription.departure_station, subscription.arrival_station>>),
       Line("Data", <<subscription.departure_date>>),
       Line("Tip mesta", <<subscription.seat_type>>),
       Line("Polka", <<subscription.berth_position>>) >>
    \o DetailLine(availability_info, "price")
    \o DetailLine(availability_info, "car_number")
    \o DetailLine(availability_info, "seat_number")
    \o << Line("Vremya uvedomleniya", <<now>>),
          Line("Ssylka dlya bronirovaniya", <<"https://pass.rzd.ru/tickets/public/ru">>) >>

\* MonitoringService._format_notification_message: the text as its lines, in
\* order; now is what datetime.now() gives.
format_notification_message(subscription, availability_info, now) ==
    << Line("Naydeny svobodnye mesta!", <<>>),
       Line("Poezd", <<subscription.train_number>>),
       Line("Marshrut", <<subscription.departure_station, subscription.arrival_station>>),
       Line("Data", <<subscription.departure_date>>),
       Line("Tip mesta", <<subscription.seat_type>>) >>
    \o (IF subscription.berth_position # "lyubaya"
        THEN <<Line("Polka", <<subscription.berth_position>>)>> ELSE <<>>)
    \o DetailLine(availability_info, "price")
    \o DetailLine(availability_info, "car_number")
    \o DetailLine(availability_info, "seat_number")
    \o << Line("Vremya uvedomleniya", <<now>>),
          Line("Ssylka dlya bronirovaniya", <<"https://pass.rzd.ru/tickets/public/ru">>) >>

\* Berth preferences of the subscriptions a text is written for.
Berths == {"lyubaya", "nizhnyaya"}

\* The subscriptions a text is written for.
NotifiedSubs ==
    {[NewRow(1, a) EXCEPT !.berth_position = b] : a \in Tuples, b \in Berths}

\* The results with seats a text is written for: each optional key is missing,
\* None, empty or set.
AvailableInfos ==
    {v \in UNION {[keys \cup {"available"} ->
                       {PyNone, "", "true"} \cup {DetailValue[k] : k \in keys}]
                   : keys \in SUBSET DOMAIN DetailLabel} :
        /\ v["available"] = "true"
        /\ \A k \in DOMAIN v \ {"available"} : v[k] \in {PyNone, "", DetailValue[k]}}

\* A subscription and a result with seats are at hand; no text is written yet.
FormatInit ==
    /\ StoreInit
    /\ SchedInit
    /\ message \in [subscription : NotifiedSubs, availability_info : AvailableInfos,
                     now : 1..MaxDay, text : {<<>>}]
    /\ Configured
    /\ SessionInit

\* _format_notification_message is called.
Format ==
    /\ message # NoMessage
    /\ message.text = <<>>
    /\ message' = [message EXCEPT !.text = format_notification_message(
                        message.subscription, message.availability_info, message.now)]
    /\ UNCHANGED <<storeVars, schedVars, bot, sessionVars>>

\* It is called again with the same arguments at another time.
FormatAgain(now) ==
    /\ message.text # <<>>
    /\ now # message.now
    /\ message' = [message EXCEPT !.now = now,
                                  !.text = format_notification_message(
                        message.subscription, message.availability_info, now)]
    /\ UNCHANGED <<storeVars, schedVars, bot, sessionVars>>

FormatNext ==
    \/ Format
    \/ \E now \in 1..MaxDay : FormatAgain(now)

FormatSpec == FormatInit /\ [][FormatNext]_vars

\* ------------------------------------------------------------ the front-end

\* The front-end handles one update at a time, once run() has initialized the
\* Store: no handler is inside start_monitoring.
FrontReady == initialized /\ direct.pc \in {"idle", "done"}

\* What users type: station names, dates as DD.MM.YYYY, a date in another
\* format, a date that does not exist.
Texts == {"Moskva", "Kazan", "01.01.2030", "03.01.2030", "2030-01-03", "31.02.2030"}

\* The days the typed dates stand for, with both ways of writing them.
Calendar ==
    {[day |-> 0, dmy |-> "01.01.2030", ymd |-> "2030-01-01"],
     [day |-> 2, dmy |-> "03.01.2030", ymd |-> "2030-01-03"]}

\* The text of a calendar day in a format.
Written(c, format) == IF format = "%d.%m.%Y" THEN c.dmy ELSE c.ymd

\* datetime.strptime(text, format): a datetime, or ValueError.
strptime(text, format) ==
    LET hit == {c \in Calendar : Written(c, format) = text}
    IN IF hit = {}
       THEN [raises |-> "ValueError", type |-> PyNone, day |-> 0]
       ELSE [raises |-> PyNone, type |-> "datetime", day |-> (CHOOSE c \in hit : TRUE).day]

\* datetime.strftime(format)
strftime(dt, format) == Written(CHOOSE c \in Calendar : c.day = dt.day, format)

\* datetime.now().date()
now_date(now) == [raises |-> PyNone, type |-> "date", day |-> now]

\* a < b for a datetime or a date on the left: a datetime and a date do not
\* compare, that raises TypeError.
less_than(a, b) ==
    IF a.type # b.type
    THEN [raises |-> "TypeError", value |-> FALSE]
    ELSE [raises |-> PyNone, value |-> a.day < b.day]

\* RZDBot._handle_date_selection up to the search: the date to store, or the
\* answer that rejects the text, or the exception that leaves the handler.
handle_date_selection(text, now) ==
    LET parsed == strptime(text, "%d.%m.%Y")
    IN IF parsed.raises # PyNone
       THEN [raised |-> PyNone, text |-> "bad format", date |-> PyNone]
       ELSE LET departure_date == strftime(parsed, "%Y-%m-%d")
                past == less_than(strptime(departure_date, "%Y-%m-%d"), now_date(now))
            IN IF past.raises # PyNone
               THEN [raised |-> past.raises, text |-> PyNone, date |-> PyNone]
               ELSE IF past.value
                    THEN [raised |-> PyNone, text |-> "in the past", date |-> PyNone]
                    ELSE [raised |-> PyNone, text |-> PyNone, date |-> departure_date]

\* What RZDParser.search_trains gives _search_trains: trains, none, an error.
SearchOutcomes == {"trains", "none", "error"}

\* RZDBot._search_trains: the trains are shown, or the session is reset.
search_trains(session, outcome) ==
    IF outcome = "trains"
    THEN [session |-> session, text |-> "trains found"]
    ELSE IF outcome = "none"
         THEN [session |-> IdleSession, text |-> "no trains"]
         ELSE [session |-> IdleSession, text |-> "search failed"]

\* /start
StartCommand(u) ==
    /\ FrontReady
    /\ user_states' = [user_states EXCEPT
                          ![u] = [state |-> "waiting_departure", data |-> EmptyDraft]]
    /\ reply' = Answer(u, "welcome")
    /\ UNCHANGED <<storeVars, schedVars, message, bot>>

\* RZDBot.handle_message: a text that is no command, handled by the state of
\* the user's session.
HandleMessage(u, text) ==
    /\ FrontReady
    /\ LET session == user_states[u]
           current_state == IF session.state = PyNone THEN "idle" ELSE session.state
       IN IF current_state = "waiting_departure"
          THEN /\ user_states' = [user_states EXCEPT
                                     ![u].data.departure_station = text,
                                     ![u].state = "waiting_arrival"]
               /\ reply' = Answer(u, "departure")
          ELSE IF current_state = "waiting_arrival"
          THEN /\ user_states' = [user_states EXCEPT
                                     ![u].data.arrival_station = text,
                                     ![u].state = "waiting_date"]
               /\ reply' = Answer(u, "route")
          ELSE IF current_state = "waiting_date"
          THEN LET r == handle_date_selection(text, today)
               IN IF r.raised # PyNone
                  THEN /\ reply' = Unanswered(u, r.raised)
                       /\ UNCHANGED user_states
                  ELSE IF r.date = PyNone
                  THEN /\ reply' = Answer(u, r.text)
                       /\ UNCHANGED user_states
                  ELSE \E outcome \in SearchOutcomes :
                          LET found == search_trains(
                                  [session EXCEPT !.data.departure_date = r.date],
                                  outcome)
                          IN /\ user_states' = [user_states EXCEPT ![u] = found.session]
                             /\ reply' = Answer(u, found.text)
          ELSE /\ reply' = Answer(u, "unknown command")
               /\ UNCHANGED user_states
    /\ UNCHANGED <<storeVars, schedVars, message, bot>>

\* The trains a select_train_ callback names.
Trains == {"001M"}

\* button_callback, select_train_...: _handle_train_selection.  It does not
\* look at the state of the session; without a session user_state['data']
\* raises KeyError.
SelectTrain(u, train) ==
    /\ FrontReady
    /\ IF user_states[u] = NoSession
       THEN /\ reply' = Unanswered(u, "KeyError")
            /\ UNCHANGED user_states
       ELSE /\ user_states' = [user_states EXCEPT ![u].data.selected_train = train]
            /\ reply' = Answer(u, "seat types")
    /\ UNCHANGED <<storeVars, schedVars, message, bot>>

\* A guard that does not ask for the date.
DraftCompleteButDate(data) ==
    /\ Truthy(data.departure_station)
    /\ Truthy(data.arrival_station)
    /\ Truthy(data.selected_train)

\* all([departure_station, arrival_station, departure_date, train_info])
DraftComplete(data) ==
    /\ Truthy(data.departure_station)
    /\ Truthy(data.arrival_station)
    /\ Truthy(data.departure_date)
    /\ Truthy(data.selected_train)

\* The day the Store takes a stored departure_date for; a draft without a date
\* gives the Store nothing to compare.
StoredDay(date) ==
    IF date = PyNone THEN 0 ELSE strptime(date, "%Y-%m-%d").day

\* The arguments _create_subscription gives create_subscription.
DraftTuple(u, data, seat_type, berth_position) ==
    [user_id |-> u, departure_station |-> data.departure_station,
     arrival_station |-> data.arrival_station,
     departure_date |-> StoredDay(data.departure_date),
     train_number |-> data.selected_train, seat_type |-> seat_type,
     berth_position |-> berth_position]

\* RZDBot._create_subscription: with a complete draft the subscription is
\* created, start_monitoring checks it and the session is reset; otherwise the
\* user is told the draft is not complete.
CreateFromDraft(u, data, seat_type, berth_position) ==
    IF DraftComplete(data)
    THEN LET a == DraftTuple(u, data, seat_type, berth_position)
             r == create_subscription(subscriptions, sub_seq, a)
         IN /\ ExistingSub(subscriptions, a) # {} \/ sub_seq < MaxSubs
            /\ subscriptions' = r.rows
            /\ sub_seq' = r.seq
            /\ direct' = [NoCheck EXCEPT !.id = r.id, !.pc = "start"]
            /\ user_states' = [user_states EXCEPT ![u] = IdleSession]
            /\ reply' = Answer(u, "created")
    ELSE /\ user_states' = [user_states EXCEPT ![u].data.seat_type =
                                IF user_states[u] = NoSession THEN PyNone ELSE seat_type]
         /\ reply' = Answer(u, "not complete")
         /\ UNCHANGED <<subscriptions, sub_seq, direct>>

\* The seat types of the select_seat_ buttons.
SeatTypes == {"platskart", "kupe"}

\* button_callback, select_seat_...: _handle_seat_selection.
SelectSeat(u, seat_type) ==
    /\ FrontReady
    /\ IF user_states[u] = NoSession
       THEN /\ reply' = Unanswered(u, "KeyError")
            /\ UNCHANGED <<user_states, subscriptions, sub_seq, direct>>
       ELSE IF seat_type = "kupe"
       THEN /\ user_states' = [user_states EXCEPT ![u].data.seat_type = seat_type]
            /\ reply' = Answer(u, "berths")
            /\ UNCHANGED <<subscriptions, sub_seq, direct>>
       ELSE CreateFromDraft(u, user_states[u].data, seat_type, "lyubaya")
    /\ UNCHANGED <<initialized, users, check_history, hist_seq, notifications,
                   notif_seq, today, creating, cleaning>>
    /\ UNCHANGED <<is_running, check_interval, requested, pc, tasks, sent>>
    /\ UNCHANGED <<message, bot>>

\* button_callback, select_berth_...: _handle_berth_selection.
SelectBerth(u, berth_position) ==
    /\ FrontReady
    /\ IF user_states[u] = NoSession
       THEN /\ reply' = Unanswered(u, "KeyError")
            /\ UNCHANGED <<user_states, subscriptions, sub_seq, direct>>
       ELSE LET data == user_states[u].data
                seat_type == IF data.seat_type = PyNone THEN "kupe" ELSE data.seat_type
            IN CreateFromDraft(u, data, seat_type, berth_position)
    /\ UNCHANGED <<initialized, users, check_history, hist_seq, notifications,
                   notif_seq, today, creating, cleaning>>
    /\ UNCHANGED <<is_running, check_interval, requested, pc, tasks, sent>>
    /\ UNCHANGED <<message, bot>>

\* Database.get_user_subscriptions: the user's active subscriptions.
get_user_subscriptions(u) == {s \in subscriptions : s.user_id = u /\ s.is_active}

\* /my_subscriptions: a delete_sub_<id> button for each of the user's active
\* subscriptions.
MySubscriptions(u) ==
    /\ FrontReady
    /\ reply' = [Answer(u, "subscriptions") EXCEPT
                    !.buttons = {s.id : s \in get_user_subscriptions(u)}]
    /\ UNCHANGED <<storeVars, schedVars, message, bot, user_states>>

\* button_callback, delete_sub_<id>: the identifier in the callback data is
\* given to delete_subscription; query.from_user.id is not looked at.
DeleteRequest(u, id) ==
    /\ FrontReady
    /\ subscriptions' = delete_subscription(subscriptions, id)
    /\ reply' = Answer(u, "deleted")
    /\ UNCHANGED <<initialized, users, sub_seq, check_history, hist_seq,
                   notifications, notif_seq, today, creating, cleaning>>
    /\ UNCHANGED <<schedVars, message, bot, user_states>>

\* ------------------------------------------------------- the specifications

Init == StoreInit /\ SchedInit /\ message = NoMessage /\ Configured /\ SessionInit

\* The steps of _check_subscription when nothing fails.
TaskStep(t) ==
    \/ TaskFetch(t)
    \/ TaskProbe(t)
    \/ TaskUpdate(t)
    \/ TaskHistory(t)
    \/ TaskSend(t)
    \/ TaskRecord(t)

\* The tuples of one user.
OwnTuples == {a \in Tuples : a.user_id = 1}

\* The tuples of one user whose date is already past when the clock starts.
PastTuples == {a \in OwnTuples : a.departure_date < 1}

\* The Store under any interleaving of the calls that write subscriptions.
CreateNext ==
    \/ Initialize
    \/ \E c \in Callers, a \in Tuples : CreateSelect(c, a)
    \/ \E c \in Callers : CreateInsert(c)
    \/ \E id \in 1..MaxSubs : Deactivate(id)
    \/ \E id \in 1..MaxSubs : Delete(id)
    \/ \E d \in RetentionDays : CleanupOldData(d)
    \/ Tick

CreateSpec == Init /\ [][CreateNext]_vars

\* The Store under its two housekeeping passes, as the days go by.
HousekeepNext ==
    \/ Initialize
    \/ AddUser(1)
    \/ \E a \in OwnTuples : CreateSubscription(a)
    \/ \E d \in RetentionDays : CleanupOldData(d)
    \/ CleanupSubsStart
    \/ CleanupSubsStep
    \/ CleanupSubsDone
    \/ Tick

HousekeepSpec == Init /\ [][HousekeepNext]_vars

\* A cleanup_old_subscriptions pass that runs alone: the Store is written and
\* the day changes only between passes.
AlonePassNext ==
    \/ cleaning.pc = "idle" /\ Initialize
    \/ cleaning.pc = "idle" /\ \E u \in Users : AddUser(u)
    \/ cleaning.pc = "idle" /\ \E a \in Tuples : CreateSubscription(a)
    \/ cleaning.pc = "idle" /\ Tick
    \/ CleanupSubsStart
    \/ CleanupSubsStep
    \/ CleanupSubsDone

AlonePassSpec == Init /\ [][AlonePassNext]_vars

\* _check_subscription writes a notification after the check record of the same
\* check, when that record says seats are available: r is the latest check
\* record and fewer notifications than check records were written so far.
NotifiedCheck(r) == r.id = hist_seq /\ r.seats_available /\ notif_seq < hist_seq

\* The Store as check records and notifications pile up and are purged.
RetentionNext ==
    \/ Initialize
    \/ \E a \in OwnTuples : CreateSubscription(a)
    \/ \E s \in subscriptions, avail \in BOOLEAN : AddCheckHistory(s.id, avail)
    \/ \E r \in check_history : NotifiedCheck(r) /\ AddNotification(r.subscription_id)
    \/ \E d \in RetentionDays : CleanupOldData(d)
    \/ Tick

RetentionSpec == Init /\ [][RetentionNext]_vars

\* The two append-only tables under every Store call that could touch them.
AppendNext ==
    \/ Initialize
    \/ \E a \in OwnTuples : CreateSubscription(a)
    \/ \E id \in 1..MaxSubs : Deactivate(id)
    \/ \E id \in 1..MaxSubs : Delete(id)
    \/ \E s \in subscriptions, avail \in BOOLEAN : AddCheckHistory(s.id, avail)
    \/ \E r \in check_history : NotifiedCheck(r) /\ AddNotification(r.subscription_id)
    \/ \E d \in RetentionDays : CleanupOldData(d)
    \/ Tick

AppendSpec == Init /\ [][AppendNext]_vars

\* Every operation of the Store and the Scheduler that writes subscriptions,
\* on one day.
FrameNext ==
    \/ Initialize
    \/ AddUser(1)
    \/ \E a \in OwnTuples : CreateSubscription(a)
    \/ \E id \in 1..MaxSubs : Deactivate(id)
    \/ \E id \in 1..MaxSubs : Delete(id)
    \/ \E d \in RetentionDays : CleanupOldData(d)
    \/ CleanupSubsStart
    \/ CleanupSubsStep
    \/ CleanupSubsDone
    \/ RunStart
    \/ InitTest
    \/ InitSleep
    \/ Settle
    \/ CycleStart
    \/ GatherDone
    \/ SleepDone
    \/ \E t \in 1..MaxSubs : TaskStep(t)

FrameSpec == Init /\ [][FrameNext]_vars

\* The Scheduler's cycles, with a front-end that creates and deletes
\* subscriptions while they run.
CycleNext ==
    \/ Initialize
    \/ AddUser(1)
    \/ \E a \in OwnTuples : CreateSubscription(a)
    \/ \E id \in 1..MaxSubs : Delete(id)
    \/ RunStart
    \/ InitTest
    \/ InitSleep
    \/ Settle
    \/ CycleStart
    \/ GatherDone
    \/ SleepDone
    \/ \E t \in 1..MaxSubs : TaskStep(t)
    \/ \E t \in 1..MaxSubs : TaskProbeRaises(t)
    \/ \E t \in 1..MaxSubs : TaskHistoryFails(t)

CycleSpec == Init /\ [][CycleNext]_vars

\* A step of MonitoringService.run.
RunStep ==
    \/ RunStart
    \/ InitTest
    \/ InitSleep
    \/ Settle
    \/ RunReturn
    \/ CycleStart
    \/ CycleFetchFails
    \/ GatherDone
    \/ SleepDone

\* A step of a _check_subscription task, whichever way it turns out.
TaskMove(t) ==
    \/ TaskStep(t)
    \/ TaskProbeRaises(t)
    \/ TaskHistoryFails(t)
    \/ TaskSendFails(t)
    \/ TaskRecordFails(t)

\* The Scheduler from start to stop, reconfigured as it runs, with a
\* subscription to a train that has left.
LiveNext ==
    \/ Initialize
    \/ AddUser(1)
    \/ \E a \in PastTuples : CreateSubscription(a)
    \/ \E n \in Intervals : UpdateCheckInterval(n)
    \/ Stop
    \/ RunStep
    \/ \E t \in 1..MaxSubs : TaskMove(t)

\* The event loop runs every coroutine that is ready: run() and each task take
\* their next step.  Nothing makes the callers of the Store or of stop() act.
LiveSpec ==
    /\ Init
    /\ [][LiveNext]_vars
    /\ WF_vars(RunStep)
    /\ \A t \in 1..MaxSubs : WF_vars(TaskMove(t))

\* A step of run() on its way out after the shutdown.
CancelStep ==
    \/ CancelDelivered
    \/ RetrySleepDone

\* A step of a check, cancelled or not.
TaskEnd(t) ==
    \/ NotCancelled(t) /\ TaskMove(t)
    \/ TaskCancelled(t)
    \/ TaskCancelSwallowed(t)

\* The Scheduler from start to the shutdown of the process.
ShutdownNext ==
    \/ Initialize
    \/ AddUser(1)
    \/ \E a \in PastTuples : CreateSubscription(a)
    \/ RunStep
    \/ Shutdown
    \/ CancelStep
    \/ \E t \in 1..MaxSubs : TaskEnd(t)

\* The event loop runs every coroutine that is ready.  Nothing makes the Store
\* get initialized or the process shut down.
ShutdownSpec ==
    /\ Init
    /\ [][ShutdownNext]_vars
    /\ WF_vars(RunStep)
    /\ WF_vars(CancelStep)
    /\ \A t \in 1..MaxSubs : WF_vars(TaskEnd(t))

\* The Scheduler's cycles while subscriptions are deactivated or deleted.
SkipNext ==
    \/ Initialize
    \/ AddUser(1)
    \/ \E a \in OwnTuples : CreateSubscription(a)
    \/ \E id \in 1..MaxSubs : Deactivate(id)
    \/ \E id \in 1..MaxSubs : Delete(id)
    \/ RunStart
    \/ InitTest
    \/ InitSleep
    \/ Settle
    \/ CycleStart
    \/ GatherDone
    \/ SleepDone
    \/ \E t \in 1..MaxSubs : TaskStep(t)

SkipSpec == Init /\ [][SkipNext]_vars

\* The Scheduler's cycles when the Availability Source has no data and the
\* Notifier fails.
NotifyNext ==
    \/ Initialize
    \/ AddUser(1)
    \/ \E a \in OwnTuples : CreateSubscription(a)
    \/ RunStart
    \/ InitTest
    \/ InitSleep
    \/ Settle
    \/ CycleStart
    \/ GatherDone
    \/ SleepDone
    \/ \E t \in 1..MaxSubs : TaskStep(t)
    \/ \E t \in 1..MaxSubs : TaskProbeNoData(t)
    \/ \E t \in 1..MaxSubs : TaskSendFails(t)

NotifySpec == Init /\ [][NotifyNext]_vars

\* A MonitoringService built with or without a token.
DeliverInit ==
    /\ StoreInit
    /\ SchedInit
    /\ message = NoMessage
    /\ bot \in BOOLEAN
    /\ SessionInit

\* Cycles whose deliveries succeed, fail, or are not tried for want of a bot,
\* and whose add_notification may fail.
DeliverNext ==
    \/ NotifyNext
    \/ \E t \in 1..MaxSubs : TaskNoBot(t)
    \/ \E t \in 1..MaxSubs : TaskRecordFails(t)

DeliverSpec == DeliverInit /\ [][DeliverNext]_vars

\* Two users with subscriptions of their own: cycles check them and deliver
\* while subscriptions are created and deleted.
AddressNext ==
    \/ Initialize
    \/ \E u \in Users : AddUser(u)
    \/ \E a \in Tuples : CreateSubscription(a)
    \/ \E id \in 1..MaxSubs : Delete(id)
    \/ RunStart
    \/ InitTest
    \/ InitSleep
    \/ Settle
    \/ CycleStart
    \/ GatherDone
    \/ SleepDone
    \/ \E t \in 1..MaxSubs : TaskStep(t)

AddressSpec == Init /\ [][AddressNext]_vars

\* The subscriptions of two users, the lists the front-end shows and the
\* delete_sub_ callbacks it gets.
OwnershipNext ==
    \/ Initialize
    \/ \E a \in Tuples : CreateSubscription(a)
    \/ \E u \in Users : MySubscriptions(u)
    \/ \E u \in Users, id \in 1..MaxSubs : DeleteRequest(u, id)

OwnershipSpec == Init /\ [][OwnershipNext]_vars

\* One user's dialogue with the front-end, from /start to the seat and berth
\* buttons, as the days pass.  No draft ever gets a date (handle_date_selection),
\* so _create_subscription never calls start_monitoring here.
SessionNext ==
    \/ Initialize
    \/ StartCommand(1)
    \/ \E text \in Texts : HandleMessage(1, text)
    \/ \E train \in Trains : SelectTrain(1, train)
    \/ \E seat_type \in SeatTypes : SelectSeat(1, seat_type)
    \/ SelectBerth(1, "nizhnyaya")
    \/ Tick

SessionSpec == Init /\ [][SessionNext]_vars

\* The checks of one subscription when the Store fails under them.
WriteNext ==
    \/ Initialize
    \/ AddUser(1)
    \/ \E a \in PastTuples : CreateSubscription(a)
    \/ \E id \in 1..MaxSubs : Delete(id)
    \/ RunStart
    \/ InitTest
    \/ InitSleep
    \/ Settle
    \/ CycleStart
    \/ GatherDone
    \/ SleepDone
    \/ \E t \in 1..MaxSubs : TaskStep(t)
    \/ \E t \in 1..MaxSubs : TaskProbeNoData(t)
    \/ \E t \in 1..MaxSubs : TaskUpdateFails(t)
    \/ \E t \in 1..MaxSubs : TaskHistoryFails(t)
    \/ \E t \in 1..MaxSubs : TaskSendFails(t)

WriteSpec == Init /\ [][WriteNext]_vars

\* The checks of a cycle side by side when the Store fails under them.
StoreFailNext ==
    \/ Initialize
    \/ AddUser(1)
    \/ \E a \in OwnTuples : CreateSubscription(a)
    \/ RunStart
    \/ InitTest
    \/ InitSleep
    \/ Settle
    \/ CycleStart
    \/ GatherDone
    \/ SleepDone
    \/ \E t \in 1..MaxSubs : TaskStep(t)
    \/ \E t \in 1..MaxSubs : TaskUpdateFails(t)
    \/ \E t \in 1..MaxSubs : TaskHistoryFails(t)
    \/ \E t \in 1..MaxSubs : TaskRecordFails(t)

StoreFailSpec == Init /\ [][StoreFailNext]_vars

\* config.MAX_CONCURRENT_REQUESTS
MAX_CONCURRENT_REQUESTS == 10

\* The n-th subscription of a database file written by earlier runs: one user
\* watches the same train on n different days.
StoredRow(n) ==
    NewRow(n, [user_id |-> 1, departure_station |-> "Moskva",
               arrival_station |-> "Kazan", departure_date |-> n,
               train_number |-> "001M", seat_type |-> "kupe",
               berth_position |-> "nizhnyaya"])

\* The process starts on a database file that holds a user and some active
\* subscriptions: the Database object is built, not yet initialized.
StoredInit ==
    /\ initialized = FALSE
    /\ users = {1}
    /\ \E n \in 1..MaxFanOut :
          /\ subscriptions = {StoredRow(i) : i \in 1..n}
          /\ sub_seq = n
    /\ check_history = {}
    /\ hist_seq = 0
    /\ notifications = {}
    /\ notif_seq = 0
    /\ today = 1
    /\ creating = [c \in Callers |-> IdleCall]
    /\ cleaning = IdlePass
    /\ SchedInit
    /\ message = NoMessage
    /\ Configured
    /\ SessionInit

\* A cycle fans out over the stored subscriptions while the Availability
\* Source is down.
FanOutNext ==
    \/ Initialize
    \/ RunStart
    \/ InitTest
    \/ InitSleep
    \/ Settle
    \/ CycleStart
    \/ GatherDone
    \/ SleepDone
    \/ \E t \in 1..MaxFanOut : TaskFetch(t)
    \/ \E t \in 1..MaxFanOut : TaskProbeRaises(t)

FanOutSpec == StoredInit /\ [][FanOutNext]_vars

\* The front-end's create-and-check handler beside the periodic loop.
DirectNext ==
    \/ Initialize
    \/ AddUser(1)
    \/ \E a \in OwnTuples : CreateAndCheck(a)
    \/ DirectStep
    \/ RunStart
    \/ InitTest
    \/ InitSleep
    \/ Settle
    \/ CycleStart
    \/ GatherDone
    \/ SleepDone
    \/ \E t \in 1..MaxSubs : TaskStep(t)

DirectSpec == Init /\ [][DirectNext]_vars

Next ==
    \/ ShutdownNext
    \/ FrameNext
    \/ AppendNext
    \/ FormatNext
    \/ FanOutNext
    \/ StoreFailNext
    \/ SkipNext
    \/ NotifyNext
    \/ WriteNext
    \/ CreateNext
    \/ DirectNext
    \/ HousekeepNext
    \/ RetentionNext
    \/ CycleNext
    \/ LiveNext
    \/ DeliverNext
    \/ AddressNext
    \/ OwnershipNext
    \/ SessionNext
    \/ AlonePassNext
    \/ \E a \in Tuples : CreateSubscription(a)
    \/ \E u \in Users : AddUser(u)

Spec == Init /\ [][Next]_vars

\* ------------------------------------------------------------- properties

\* The check records of a subscription.
RecordsOf(t) == {r \in check_history : r.subscription_id = t}

\* The most recent of a set of check records.
Latest(rows) == CHOOSE r \in rows : \A q \in rows : q.id <= r.id

\* The check records of a subscription written before its running check.
Earlier(t) ==
    IF tasks[t].hist = 1 THEN RecordsOf(t) \ {Latest(RecordsOf(t))} ELSE RecordsOf(t)

\* C1: a notification is sent for a subscription only when the previous known
\* verdict for that subscription was unavailable or there was none; a cycle
\* that repeats available=true sends nothing.
EdgeTriggered ==
    [][\A t \in DOMAIN tasks :
          (t \in DOMAIN tasks' /\ tasks[t].pc = "send" /\ tasks'[t].pc = "record")
              => (Earlier(t) = {} \/ ~Latest(Earlier(t)).seats_available)]_vars

\* C2 as stated: when a cycle is over and one check raised, every other
\* subscription of the cycle had the source queried once and one check record
\* written.
IsolationAsStated ==
    pc = "sleep" =>
        \A r \in DOMAIN tasks, t \in DOMAIN tasks :
            (tasks[r].fate = "raised" /\ t # r)
                => (tasks[t].probes = 1 /\ tasks[t].hist = 1)

\* C2: when a cycle is over and one check raised, every other subscription of
\* the cycle that was still active when its own check read the Store, whose own
\* source call returned and whose own record write succeeded had the source
\* queried once and one check record written.
IsolationOfChecks ==
    pc = "sleep" =>
        \A r \in DOMAIN tasks, t \in DOMAIN tasks :
            (tasks[r].fate = "raised" /\ t # r /\ tasks[t].fate = "none")
                => (tasks[t].probes = 1 /\ tasks[t].hist = 1)

\* A cycle is over in which one check raised and another went through.
IsolationWitness ==
    /\ pc = "sleep"
    /\ \E r \in DOMAIN tasks, t \in DOMAIN tasks :
          /\ t # r
          /\ tasks[r].fate = "raised"
          /\ tasks[t].fate = "none"
          /\ tasks[t].probes = 1
          /\ tasks[t].hist = 1
          /\ RecordsOf(t) # {}

\* C3: the subscriptions a cycle checks are those with is_active = 1, whatever
\* the users table holds.
ChecksEveryActive ==
    [][(pc = "loop_test" /\ pc' = "gather")
          => DOMAIN tasks' = Ids({s \in subscriptions : s.is_active})]_vars

\* The seven fields that identify what a subscription watches.
TupleOf(s) ==
    [user_id |-> s.user_id, departure_station |-> s.departure_station,
     arrival_station |-> s.arrival_station, departure_date |-> s.departure_date,
     train_number |-> s.train_number, seat_type |-> s.seat_type,
     berth_position |-> s.berth_position]

\* C4: at most one active subscription exists per tuple.
AtMostOneActive ==
    \A s \in subscriptions, q \in subscriptions :
        (s.is_active /\ q.is_active /\ TupleOf(s) = TupleOf(q)) => s.id = q.id

\* C5: two create_subscription calls, one after the other, with the same tuple
\* return the same identifier, and the second adds no row.
CreateIdempotent ==
    \A a \in Tuples :
        LET first == create_subscription(subscriptions, sub_seq, a)
            second == create_subscription(first.rows, first.seq, a)
        IN /\ second.id = first.id
           /\ second.rows = first.rows
           /\ second.seq = first.seq

\* A call has created a subscription that is still active, and a second call
\* with the same tuple returns its identifier.
CreateTwiceWitness ==
    /\ InFlight = {}
    /\ \E s \in subscriptions :
          /\ s.is_active
          /\ create_subscription(subscriptions, sub_seq, TupleOf(s)).id = s.id
          /\ create_subscription(subscriptions, sub_seq, TupleOf(s)).rows = subscriptions

\* C6: the check interval is never below 60: it is 300 until it is
\* reconfigured, then the value last asked for, or 60 if that was less.
IntervalFloor ==
    /\ check_interval >= 60
    /\ check_interval = IF requested = <<>> THEN 300
                        ELSE IF requested[1] >= 60 THEN requested[1] ELSE 60

\* An interval of 10 was asked for while the loop was running.
IntervalClampedWitness == requested = <<10>> /\ check_interval = 60 /\ pc = "sleep"

\* C7: when a housekeeping pass is over, every subscription dated before today
\* is inactive, no row is gone, and the others keep their flag.
PassDeactivatesPast ==
    [][((\E d \in RetentionDays : CleanupOldData(d)) \/ CleanupSubsDone)
          => /\ \A s \in subscriptions' : s.departure_date < today' => ~s.is_active
             /\ Ids(subscriptions') = Ids(subscriptions)
             /\ \A s \in subscriptions : s.departure_date >= today => s \in subscriptions']_vars

\* C8: cleanup_old_data run twice in a row with the same window and the same
\* clock leaves the Store as the first run left it.
CleanupIdempotent ==
    \A d \in RetentionDays :
        LET first == cleanup_old_data(check_history, notifications, subscriptions,
                                      d, today)
            second == cleanup_old_data(first.check_history, first.notifications,
                                       first.subscriptions, d, today)
        IN second = first

\* A cleanup has purged a check record and a notification and deactivated a
\* subscription, and running it again changes nothing.
CleanupTwiceWitness ==
    /\ Cardinality(check_history) < hist_seq
    /\ Cardinality(notifications) < notif_seq
    /\ check_history # {}
    /\ \E s \in subscriptions : s.departure_date < today /\ ~s.is_active
    /\ \A d \in RetentionDays :
          cleanup_old_data(check_history, notifications, subscriptions, d, today)
              = [check_history |-> check_history, notifications |-> notifications,
                 subscriptions |-> subscriptions]

\* The active subscriptions dated before today.
PastActive == {s \in subscriptions : s.is_active /\ s.departure_date < today}

\* C9: while the scheduler loop keeps running, an active subscription whose
\* date has passed is eventually made inactive.
PastEventuallyInactive ==
    \A id \in 1..MaxSubs :
        (is_running /\ id \in Ids(PastActive)) ~> (~is_running \/ id \notin Ids(PastActive))

\* C10: once stop() was called after run() started, run() eventually returns.
StopEventuallyReturns == (pc # "idle" /\ ~is_running) ~> (pc = "returned")

\* run() is inside a cycle.
InCycle == pc \in {"gather", "gather_failed"}

\* run() is in the sleep that follows a cycle.
Sleeping == pc \in {"sleep", "sleep_failed"}

\* C11: while stop() is not called, every cycle comes to its end, whether its
\* checks or its fetch failed or not, and after it another cycle starts.
LoopNeverFatal ==
    /\ InCycle ~> Sleeping
    /\ Sleeping ~> (~is_running \/ InCycle)

\* A cycle has started after an earlier cycle wrote a check record.
LaterCycleWitness ==
    /\ is_running
    /\ pc = "gather"
    /\ \E t \in DOMAIN tasks : tasks[t].pc = "start" /\ RecordsOf(t) # {}

\* C12: after a cycle whose fetch of the active subscriptions failed, the loop
\* waits retry_delay before the next cycle.
FetchFailureWaitsRetryDelay == pc = "sleep_failed" => Wait = retry_delay

\* C13: run() fetches nothing and checks nothing while the Store is not
\* initialized, and the initialized flag, once set, stays set.
StartupOrdering ==
    /\ [](pc \in {"settle", "loop_test", "gather", "gather_failed", "sleep",
                  "sleep_failed", "returned"} => initialized)
    /\ [](tasks # <<>> => initialized)
    /\ [][initialized => initialized']_vars

\* run() was started before the Store was ready, waited, and is now in a cycle
\* with a check under way.
StartupWitness ==
    /\ initialized
    /\ pc = "gather"
    /\ \E t \in DOMAIN tasks : tasks[t].probes = 1

\* C14: the check start_monitoring makes for a subscription just created and
\* still active has queried the Availability Source once when it returns.
DirectChecksOnce ==
    (direct.pc = "done" /\ direct.id \in Ids({s \in subscriptions : s.is_active}))
        => direct.probes = 1

\* The subscriptions with is_active = 1.
ActiveIds == Ids({s \in subscriptions : s.is_active})

\* C15: a check that starts when its subscription is deleted or deactivated
\* returns at once: no source call, no check record, no last-checked update, no
\* message, no error.
SkippedSilently ==
    /\ [][\A t \in DOMAIN tasks :
            (/\ t \in DOMAIN tasks'
             /\ tasks[t].pc = "start"
             /\ tasks'[t] # tasks[t]
             /\ t \notin ActiveIds)
            => /\ tasks'[t].pc = "done"
               /\ tasks'[t].probes = 0
               /\ tasks'[t].hist = 0
               /\ tasks'[t].fate = "skipped"
               /\ UNCHANGED <<subscriptions, check_history, notifications, sent>>]_vars
    /\ [](\A t \in DOMAIN tasks :
            tasks[t].fate = "skipped"
                => tasks[t].pc = "done" /\ tasks[t].probes = 0 /\ tasks[t].hist = 0)

\* A cycle is over in which the check of a deactivated subscription was skipped.
SkippedWitness ==
    /\ pc = "sleep"
    /\ \E t \in DOMAIN tasks :
          /\ tasks[t].fate = "skipped"
          /\ tasks[t].probes = 0
          /\ \E s \in subscriptions : s.id = t /\ ~s.is_active /\ s.last_checked = NoTime

\* C16: a check for which the Availability Source failed updates no
\* last-checked timestamp and sends no notification.
SourceFailureTouchesNothing ==
    [][\A t \in DOMAIN tasks :
          (t \in DOMAIN tasks' /\ tasks[t].verdict = "error" /\ tasks'[t] # tasks[t])
              => UNCHANGED <<subscriptions, notifications, sent>>]_vars

\* C17: no check record with seats_available = false is written for a probe
\* that got no data.
NoDataNeverUnavailable ==
    \A r \in check_history : r.seats_info = "error" => r.seats_available

\* C18: when the delivery of a notification fails, the check record and the
\* last-checked update of that check stay, the check returns without raising,
\* and the other checks of the cycle are not touched.
DeliveryFailureCaught ==
    /\ [][\A t \in DOMAIN tasks :
            (t \in DOMAIN tasks' /\ tasks[t].pc = "send" /\ tasks'[t].pc = "done")
            => /\ UNCHANGED <<subscriptions, check_history>>
               /\ tasks'[t].fate = tasks[t].fate
               /\ tasks'[t].hist = tasks[t].hist
               /\ \A u \in DOMAIN tasks \ {t} : tasks'[u] = tasks[u]]_vars
    /\ [](pc = "sleep" => \A t \in DOMAIN tasks :
                              tasks[t].pc = "done" /\ tasks[t].fate # "raised")

\* A cycle is over in which a check found seats, wrote its record and its
\* last-checked, could not deliver, and another check went through.
DeliveryFailureWitness ==
    /\ pc = "sleep"
    /\ sent = <<>>
    /\ notifications = {}
    /\ \E t \in DOMAIN tasks, u \in DOMAIN tasks :
          /\ t # u
          /\ tasks[t].fate = "none" /\ tasks[t].hist = 1
          /\ \E r \in RecordsOf(t) : r.seats_available
          /\ \E s \in subscriptions : s.id = t /\ s.last_checked = today
          /\ tasks[u].fate = "none" /\ tasks[u].hist = 1

\* The check obtained a result from the Availability Source and has gone past
\* its two Store writes.
PastWrites(task) == task.probes = 1 /\ task.pc \in {"send", "record", "done"}

\* C20 as stated: every check that obtained a verdict has appended one check
\* record and has set last-checked.
VerdictAlwaysRecorded ==
    \A t \in DOMAIN tasks :
        PastWrites(tasks[t])
            => /\ tasks[t].hist = 1
               /\ \E s \in subscriptions : s.id = t /\ s.last_checked = today

\* C20: every check that obtained a result and whose two Store writes succeeded
\* has appended exactly one check record, whose flag is the result's available
\* flag, and has set last-checked of its subscription if the row still exists.
VerdictRecorded ==
    /\ [][\A t \in DOMAIN tasks :
            (t \in DOMAIN tasks' /\ tasks'[t].hist # tasks[t].hist)
            => /\ tasks[t].hist = 0 /\ tasks'[t].hist = 1
               /\ \E r \in check_history' :
                     /\ check_history' = check_history \cup {r}
                     /\ r \notin check_history
                     /\ r.subscription_id = t
                     /\ r.seats_available = (tasks[t].verdict = "avail")]_vars
    /\ [](\A t \in DOMAIN tasks :
            (PastWrites(tasks[t]) /\ tasks[t].fate = "none")
                => /\ tasks[t].hist = 1
                   /\ \A s \in subscriptions : s.id = t => s.last_checked = today)

\* A check found seats and wrote its record with the flag up; a later check of
\* the same subscription got a no-data result, wrote its record with the flag
\* down and set last-checked.
VerdictRecordedWitness ==
    \E t \in DOMAIN tasks :
        /\ PastWrites(tasks[t]) /\ tasks[t].fate = "none" /\ tasks[t].hist = 1
        /\ ~Latest(RecordsOf(t)).seats_available
        /\ Latest(RecordsOf(t)).seats_info = "error"
        /\ \E r \in RecordsOf(t) : r.seats_available
        /\ \E s \in subscriptions : s.id = t /\ s.last_checked = today

\* The checks whose request to the Availability Source is in flight.
InFlightChecks == {t \in DOMAIN tasks : tasks[t].pc = "probe"}

\* C19: no more than MAX_CONCURRENT_REQUESTS availability checks are in flight
\* at any moment.
BoundedParallelism == Cardinality(InFlightChecks) <= MAX_CONCURRENT_REQUESTS

\* C21: within one check the steps come in the order verdict, check record,
\* last-checked update, notification: the record is written after the verdict
\* was obtained, last-checked is set after the record was written, and the
\* message is sent after last-checked was set.
CheckStepsInOrder ==
    [][\A t \in DOMAIN tasks :
          t \in DOMAIN tasks' =>
              /\ tasks'[t].hist # tasks[t].hist => tasks[t].probes = 1
              /\ (tasks[t].pc = "update" /\ tasks'[t].pc = "history")
                    => tasks[t].hist = 1
              /\ (tasks[t].pc = "send" /\ tasks'[t].pc = "record")
                    => /\ tasks[t].hist = 1
                       /\ \A s \in subscriptions : s.id = t => s.last_checked = today]_vars

StoreFates == {"updfail", "histfail", "recfail"}

\* C23: a Store call that fails inside a check loses its own effect and nothing
\* else: nothing is raised out of the check, the check goes on to its next
\* step, and the other checks of the cycle are not touched and go through.
StoreFailureContained ==
    /\ [](\A t \in DOMAIN tasks : tasks[t].fate # "raised")
    /\ [][\A t \in DOMAIN tasks :
            (/\ t \in DOMAIN tasks'
             /\ tasks'[t].fate # tasks[t].fate
             /\ tasks'[t].fate \in StoreFates)
            => /\ UNCHANGED <<subscriptions, check_history, notifications, sent>>
               /\ tasks'[t].pc =
                     (IF tasks[t].pc = "update" THEN "history"
                      ELSE IF tasks[t].pc = "history" /\ tasks[t].verdict = "avail"
                      THEN "send" ELSE "done")
               /\ \A u \in DOMAIN tasks \ {t} : tasks'[u] = tasks[u]]_vars
    /\ [](\A t \in DOMAIN tasks :
            (tasks[t].fate = "updfail" /\ tasks[t].pc \in {"send", "record", "done"})
                => tasks[t].hist = 1)
    /\ [](pc = "sleep" =>
            \A r \in DOMAIN tasks, t \in DOMAIN tasks :
                (tasks[r].fate \in StoreFates /\ t # r /\ tasks[t].fate = "none")
                    => (tasks[t].pc = "done" /\ tasks[t].probes = 1 /\ tasks[t].hist = 1))

\* A cycle is over in which one check could not set last-checked and still
\* wrote its check record, and another check went through.
StoreFailureWitness ==
    /\ pc = "sleep"
    /\ \E r \in DOMAIN tasks, t \in DOMAIN tasks :
          /\ t # r
          /\ tasks[r].fate = "updfail" /\ tasks[r].hist = 1
          /\ \E s \in subscriptions : s.id = r /\ s.last_checked = NoTime
          /\ RecordsOf(r) # {}
          /\ tasks[t].fate = "none" /\ tasks[t].hist = 1
          /\ \E s \in subscriptions : s.id = t /\ s.last_checked = today

\* The text has a line with this label and these values.
Contains(text, label, parts) ==
    \E i \in 1..Len(text) : text[i].label = label /\ text[i].parts = parts

\* The text has a line with this label.
HasLine(text, label) == \E i \in 1..Len(text) : text[i].label = label

\* The text without its line of the current time.
WithoutStamp(text) == SelectSeq(text, LAMBDA l : l.label # "Vremya uvedomleniya")

\* C24: the notification text always names the train, the two stations, the
\* date and the seat class; it names the berth exactly when the preference is
\* not "any"; it gives price, car and seat exactly when the result has a
\* non-empty value for each; and two texts for the same subscription and result
\* differ at most in the line of the current time.
TextComplete ==
    /\ [](message.text # <<>> =>
            LET s == message.subscription
                v == message.availability_info
                x == message.text
            IN /\ Contains(x, "Poezd", <<s.train_number>>)
               /\ Contains(x, "Marshrut", <<s.departure_station, s.arrival_station>>)
               /\ Contains(x, "Data", <<s.departure_date>>)
               /\ Contains(x, "Tip mesta", <<s.seat_type>>)
               /\ HasLine(x, "Polka") <=> s.berth_position # "lyubaya"
               /\ HasLine(x, "Polka") => Contains(x, "Polka", <<s.berth_position>>)
               /\ \A k \in DOMAIN DetailLabel :
                     /\ HasLine(x, DetailLabel[k])
                           <=> (k \in DOMAIN v /\ v[k] # PyNone /\ v[k] # "")
                     /\ HasLine(x, DetailLabel[k]) => Contains(x, DetailLabel[k], <<v[k]>>))
    /\ [][(message.text # <<>> /\ message'.text # <<>>)
            => WithoutStamp(message'.text) = WithoutStamp(message.text)]_vars

\* A text was written for a subscription with no berth preference and a result
\* that has a price, an empty car and no seat.
TextWitness ==
    /\ message.text # <<>>
    /\ message.subscription.berth_position = "lyubaya"
    /\ DOMAIN message.availability_info = {"available", "price", "car_number"}
    /\ message.availability_info["price"] = "3200"
    /\ message.availability_info["car_number"] = ""
    /\ message.now = 2
    /\ Contains(message.text, "Vremya uvedomleniya", <<2>>)
    /\ Contains(message.text, "Tsena", <<"3200">>)
    /\ ~HasLine(message.text, "Vagon")
    /\ Len(message.text) = 8

\* C25: check records and notifications are append-only.  A step that is not
\* cleanup_old_data keeps every row of both tables as it is; cleanup_old_data
\* removes only rows older than its window; and a row that appears has an
\* identifier no row had before, so no existing row is rewritten.
AppendOnly ==
    [][/\ (~ \E d \in RetentionDays : CleanupOldData(d))
            => (check_history \subseteq check_history'
                /\ notifications \subseteq notifications')
       /\ \A d \in RetentionDays :
             CleanupOldData(d)
                => /\ check_history' \subseteq check_history
                   /\ notifications' \subseteq notifications
                   /\ \A r \in check_history \ check_history' : r.at < today - d
                   /\ \A n \in notifications \ notifications' : n.at < today - d
       /\ \A r \in check_history' \ check_history : r.id > hist_seq
       /\ \A n \in notifications' \ notifications : n.id > notif_seq]_vars

\* A subscription was checked, notified and then deleted; a cleanup has purged
\* an old check record, and a check record and a notification of the deleted
\* subscription, still inside the window, are there as they were written.
AppendOnlyWitness ==
    /\ Cardinality(check_history) < hist_seq
    /\ \E r \in check_history, n \in notifications :
          /\ r.subscription_id \notin Ids(subscriptions)
          /\ n.subscription_id = r.subscription_id
          /\ r.seats_available
          /\ ~(r.at < today - 1)

\* C26: as long as a subscription row exists, its owner, stations, date, train,
\* seat class and berth preference are those it was created with: a step
\* changes nothing of a row but is_active and last_checked.
TupleFrozen ==
    [][\A s \in subscriptions, q \in subscriptions' :
          q.id = s.id => TupleOf(q) = TupleOf(s)]_vars

\* A subscription was checked and then deactivated: its flag and its
\* last-checked changed, its tuple did not.
TupleFrozenWitness ==
    \E s \in subscriptions :
        /\ ~s.is_active
        /\ s.last_checked # NoTime
        /\ TupleOf(s) \in OwnTuples
        /\ RecordsOf(s.id) # {}

\* C27: once the shutdown has called stop() and cancelled the monitoring task,
\* run() ends, wherever the cancellation found it: waiting for the Store,
\* asleep between cycles, or waiting for its checks.
ShutdownTerminates == (pc \in CancelPcs) ~> (pc \in {"cancelled", "returned"})

\* The shutdown came while run() waited for a check that was querying the
\* Availability Source: the check was cancelled and run() is over.
ShutdownWitness ==
    /\ pc = "cancelled"
    /\ ~is_running
    /\ \E t \in DOMAIN tasks : tasks[t].fate = "cancelled" /\ tasks[t].probes = 0

\* C28: cycles never overlap.  Outside a cycle no check is under way: every
\* check of a cycle is over before the loop sleeps; and a check starts only
\* when every check of the cycle before is over.
CyclesDisjoint ==
    /\ [](~InCycle => \A t \in DOMAIN tasks : tasks[t].pc = "done")
    /\ [][(\E t \in DOMAIN tasks' :
              tasks'[t].pc = "start" /\ (t \notin DOMAIN tasks \/ tasks[t].pc # "start"))
            => \A t \in DOMAIN tasks : tasks[t].pc = "done"]_vars

\* A later cycle is under way after the loop slept: one of its checks is
\* querying the source, and another, for a subscription that got its check
\* record in an earlier cycle, has not started yet.
NextCycleWitness ==
    /\ pc = "gather"
    /\ hist_seq = 1
    /\ \E t \in DOMAIN tasks, u \in DOMAIN tasks :
          /\ t # u
          /\ tasks[t].pc = "probe" /\ RecordsOf(t) = {}
          /\ tasks[u].pc = "start" /\ RecordsOf(u) # {}

\* The checks of a subscription that are under way: the task of the cycle and
\* the call start_monitoring makes.
ChecksUnderWay(id) ==
    {c \in {"cycle"} : id \in DOMAIN tasks /\ tasks[id].pc # "done"}
        \cup {c \in {"direct"} : direct.id = id /\ direct.pc \notin {"idle", "done"}}

\* C29: at most one check of a subscription is under way at any moment, also
\* when the front-end calls start_monitoring while a cycle runs.
OneCheckAtATime == \A id \in 1..MaxSubs : Cardinality(ChecksUnderWay(id)) <= 1

\* The subscriptions that were deleted or deactivated.
Closed == {id \in 1..sub_seq : id \notin ActiveIds}

\* The messages delivered for a subscription, by their place in sent.
MessagesOf(id) == {i \in 1..Len(sent) : sent[i].subscription_id = id}

\* A check of the subscription has read it from the Store and has not returned.
CheckInFlight(id) ==
    \/ id \in DOMAIN tasks
          /\ tasks[id].pc \in {"probe", "update", "history", "send", "record"}
    \/ direct.id = id
          /\ direct.pc \in {"probe", "update", "history", "send", "record"}

\* C30 as stated: once a subscription is deleted or deactivated, no check
\* record is appended and no message is delivered for it, even by a check that
\* was in flight.
NothingAfterClose ==
    [][\A id \in Closed :
          /\ RecordsOf(id)' = RecordsOf(id)
          /\ MessagesOf(id)' = MessagesOf(id)]_vars

\* C30: once a subscription is deleted or deactivated and no check that read
\* it before is still in flight, no check record is appended and no message is
\* delivered for it, and no check of it gets past its read of the Store again.
NothingAfterCloseAndReturn ==
    [][\A id \in Closed :
          ~CheckInFlight(id)
              => /\ RecordsOf(id)' = RecordsOf(id)
                 /\ MessagesOf(id)' = MessagesOf(id)
                 /\ {n \in notifications' : n.subscription_id = id}
                       = {n \in notifications : n.subscription_id = id}
                 /\ ~CheckInFlight(id)'
                 /\ id \in Closed']_vars

\* A subscription that was checked and then deactivated is left alone by a
\* later cycle, which is checking another subscription.
ClosedLeftAloneWitness ==
    /\ pc = "gather"
    /\ \E id \in Closed, t \in DOMAIN tasks :
          /\ id \notin DOMAIN tasks
          /\ RecordsOf(id) # {}
          /\ \E s \in subscriptions : s.id = id
          /\ tasks[t].pc = "update"

\* C31: every subscription the front-end created is, while it is active, among
\* the rows get_active_subscriptions returns: its owner has a users row.
CreatedIsVisible ==
    \A s \in subscriptions :
        s.is_active => (s \in get_active_subscriptions /\ s.user_id \in users)

\* The notification rows of a subscription.
NotificationsOf(id) == {n \in notifications : n.subscription_id = id}

\* C32: a notification row is written only after the message was delivered:
\* a subscription never has more notification rows than messages delivered for
\* it, a service without a bot writes none, and a check whose delivery failed
\* or was not tried returns with no row written.
RowsFollowDeliveries ==
    /\ [](\A id \in 1..MaxSubs :
            Cardinality(NotificationsOf(id)) <= Cardinality(MessagesOf(id)))
    /\ [](~bot => notifications = {} /\ sent = <<>>)
    /\ [][\A t \in 1..MaxSubs :
            (TaskSendFails(t) \/ TaskNoBot(t))
                => /\ notifications' = notifications
                   /\ sent' = sent
                   /\ tasks'[t].pc = "done"]_vars

\* A cycle is over in which one message was delivered and recorded and
\* another check returned from the delivery step with nothing sent or written.
RowsFollowDeliveriesWitness ==
    /\ pc = "sleep"
    /\ \E t, f \in DOMAIN tasks :
          /\ t # f
          /\ tasks[t].pc = "done" /\ tasks[f].pc = "done"
          /\ tasks[t].fate = "none" /\ tasks[f].fate = "none"
          /\ Cardinality(NotificationsOf(t)) = 1 /\ Cardinality(MessagesOf(t)) = 1
          /\ NotificationsOf(f) = {} /\ MessagesOf(f) = {}
          /\ \E h \in check_history : h.subscription_id = f /\ h.seats_available

\* C33: every message delivered, and every message a check is about to send,
\* goes to the chat of the user who owns the subscription it is about.
AddressedToOwner ==
    /\ \A i \in 1..Len(sent) : \A s \in subscriptions :
          s.id = sent[i].subscription_id => sent[i].chat_id = s.user_id
    /\ \A t \in DOMAIN tasks : \A s \in subscriptions :
          (s.id = t /\ tasks[t].pc \in {"probe", "update", "history", "send"})
              => tasks[t].chat = s.user_id

\* Both users own a subscription and each got the message about their own.
AddressedToOwnerWitness ==
    /\ Len(sent) = 2
    /\ sent[1].chat_id # sent[2].chat_id
    /\ \A i \in 1..2 : \E s \in subscriptions :
          s.id = sent[i].subscription_id /\ s.user_id = sent[i].chat_id

\* C34: a delete_sub_ callback removes only subscriptions of the user who sent
\* it.
OnlyOwnerDeletes ==
    [][\A u \in Users, id \in 1..MaxSubs :
          DeleteRequest(u, id)
              => \A s \in subscriptions : s \notin subscriptions' => s.user_id = u]_vars

\* The text is a date written DD.MM.YYYY.
WellFormed(text) == \E c \in Calendar : c.dmy = text

\* The answers _search_trains gives once the search was started.
SearchAnswers == {"trains found", "no trains", "search failed"}

\* C35: in state waiting_date a DD.MM.YYYY date that is today or later is stored
\* in the draft as YYYY-MM-DD and the search is started; an earlier date or a
\* text that is no such date is answered with a rejection, stores no date and
\* leaves the session as it was.
DateHandledAsStated ==
    [][\A text \in Texts :
          (HandleMessage(1, text) /\ user_states[1].state = "waiting_date")
              => IF WellFormed(text) /\ strptime(text, "%d.%m.%Y").day >= today
                 THEN /\ reply'.text \in SearchAnswers
                      /\ reply'.text = "trains found"
                            => user_states'[1].data.departure_date
                                  = strftime(strptime(text, "%d.%m.%Y"), "%Y-%m-%d")
                 ELSE /\ reply'.text \in {"in the past", "bad format"}
                      /\ user_states' = user_states]_vars

\* The draft holds a departure station, an arrival station, a date and a train.
HoldsAll(data) ==
    /\ data.departure_station \in Texts
    /\ data.arrival_station \in Texts
    /\ data.departure_date \in {c.ymd : c \in Calendar}
    /\ data.selected_train \in Trains

\* The step created a subscription or started a check.
Created ==
    subscriptions' # subscriptions \/ sub_seq' # sub_seq \/ direct' # direct

ActiveOf(rows) == {s.id : s \in {r \in rows : r.is_active}}

\* C37: when a cleanup_old_subscriptions pass that ran alone is over, the
\* active subscriptions are those cleanup_old_data leaves active.  The pass only
\* deactivates rows cleanup_old_data deactivates too, so cleanup_old_data gives
\* the same active set from the state after the pass as from the state before.
HousekeepingAgrees ==
    (cleaning.pc = "loop" /\ cleaning.todo = {})
        => ActiveOf(subscriptions) = ActiveOf(PastDeactivated(subscriptions, today))

\* C38: no two subscriptions share an id, and a subscription that is inserted
\* gets an id larger than every id given out before, one that no check_history
\* or notifications row already refers to.
IdsNeverReused ==
    /\ [](\A s, t \in subscriptions : s.id = t.id => s = t)
    /\ [](\A s \in subscriptions : s.id <= sub_seq)
    /\ [][\A s \in subscriptions' :
            s.id \notin {r.id : r \in subscriptions}
                => /\ s.id > sub_seq
                   /\ \A r \in check_history : r.subscription_id # s.id
                   /\ \A r \in notifications : r.subscription_id # s.id]_vars

\* Subscription 1 was deleted and left a check record and a notification
\* behind; the subscription created after it is subscription 2.
IdsNeverReusedWitness ==
    /\ {s.id : s \in subscriptions} = {2}
    /\ \E r \in check_history : r.subscription_id = 1
    /\ \E r \in notifications : r.subscription_id = 1

====
